---- MODULE Spec2Model ----
(***************************************************************************)
(* Model of the LXST native real-time voice path: the two lock-free SPSC   *)
(* ring buffers (PacketRingBuffer, EncodedRingBuffer), and the capture and *)
(* playback engines that use them.                                         *)
(***************************************************************************)
EXTENDS Integers, Sequences, FiniteSets, TLC

VARIABLES
  ringBuffer,          \* PacketRingBuffer object (ringBuffer_), or Null
  encodedRingBuffer,   \* EncodedRingBuffer object (encodedRingBuffer_), or Null
  okWrites,            \* history: write calls that returned true
  okReads,             \* history: read calls that returned true
  skipReads,           \* history: EncodedRingBuffer reads that dropped a packet
  last,                \* history: the last ring-buffer call and its pre-state
  pipeline,            \* which code drives the ring buffer step by step
  th,                  \* per thread: position in write/read and its locals
  slotPub,             \* history: slot published by a write, not yet released
  accepted,            \* history: items of the writes that returned true
  delivered,           \* history: items the consumer's reads returned
  storers,             \* history: which threads stored to each index
  smashed,             \* history: a read copied past the end of its destination
  frameSamples_,       \* frameSamples_ of the engine
  channels_,           \* channels_ of the engine
  callbackBuffer,      \* callbackBuffer_: the one-frame lookahead of the callback
  callbackBufferOffset,\* callbackBufferOffset_
  callbackBufferValid, \* callbackBufferValid_
  destroyed,           \* destroyed_
  isCreated,           \* isCreated_
  isPlaying,           \* isPlaying_
  stream,              \* stream_: "none" or "open"
  playbackMuted,       \* playbackMuted_
  decoder,             \* decoder_: Null or a CodecWrapper
  decoderLock,         \* decoderLock_ (TRUE when set)
  consecutivePlcCount, \* consecutivePlcCount_
  cb,                  \* the playback callback in progress on the driver's thread
  app,                 \* where the application thread is inside a call
  output,              \* audioData of the last playback callback
  play,                \* history of the playback engine
  accumBuffer,         \* accumBuffer_ of the capture engine
  accumCount,          \* accumCount_
  captureMuted,        \* captureMuted_
  capt,                \* history of the capture engine
  isRecording,         \* isRecording_ of the capture engine
  filterChain,         \* filterChain_: the state of its stages, per channel
  silenceBuf,          \* silenceBuf_
  encoder,             \* encoder_ of the capture engine
  err                  \* where the driver's error thread is in onErrorAfterClose

ringVars == <<ringBuffer, encodedRingBuffer>>
histVars == <<okWrites, okReads, skipReads, last>>
stepVars == <<pipeline, th, slotPub, accepted, delivered, storers, smashed>>
playVars == <<frameSamples_, channels_, callbackBuffer, callbackBufferOffset,
              callbackBufferValid, destroyed, isCreated, isPlaying, stream,
              playbackMuted, decoder, decoderLock, consecutivePlcCount, cb,
              app, output, play>>
capVars == <<accumBuffer, accumCount, captureMuted, capt, isRecording, err,
             filterChain, silenceBuf, encoder>>
engineVars == <<playVars, capVars>>
restVars == <<histVars, engineVars>>
vars == <<ringBuffer, encodedRingBuffer, okWrites, okReads, skipReads, last,
          pipeline, th, slotPub, accepted, delivered, storers, smashed,
          frameSamples_, channels_, callbackBuffer, callbackBufferOffset,
          callbackBufferValid, destroyed, isCreated, isPlaying, stream,
          playbackMuted, decoder, decoderLock, consecutivePlcCount, cb, app,
          output, play, accumBuffer, accumCount, captureMuted, capt,
          isRecording, err, filterChain, silenceBuf, encoder>>

----------------------------------------------------------------------------
(* Bounds of the model *)

MaxSlots == 3          \* largest backing array (maxFrames / maxSlots)
MaxFrameSamples == 2   \* largest frameSamples
MaxBytes == 2          \* largest maxBytesPerSlot
MaxOps == 4            \* successful writes explored per ring buffer
MaxItems == 4          \* items the producer hands over, step-level model
MaxChannels == 2       \* channels of an engine
MaxWrites == 3         \* frames and packets handed to the playback engine
MaxBurst == 3          \* samples per driver callback
MaxBursts == 3         \* callbacks of the capture engine

----------------------------------------------------------------------------
(* Values *)

Null == [isNull |-> TRUE]

\* A buffer of n samples (or bytes) all equal to v
Fill(n, v) == [i \in 1..n |-> v]

Min(a, b) == IF a < b THEN a ELSE b

----------------------------------------------------------------------------
(* PacketRingBuffer: fixed-frame SPSC ring buffer, whole calls *)

PacketRingBuffer(maxFrames, frameSamples) ==
  [maxFrames    |-> maxFrames,
   frameSamples |-> frameSamples,
   buffer       |-> [s \in 0..(maxFrames - 1) |-> Fill(frameSamples, 0)],
   writeIndex   |-> 0,
   readIndex    |-> 0]

\* PacketWrite with the full test comparing the write index itself (w == r)
\* instead of the next write index: the one-slot-empty rule is lost
PacketWrite_FullTestOnW(rb, samples, count) ==
  IF count # rb.frameSamples THEN [ok |-> FALSE, rb |-> rb]
  ELSE LET w == rb.writeIndex
           r == rb.readIndex
           nextW == (w + 1) % rb.maxFrames
       IN IF w = r
          THEN [ok |-> FALSE, rb |-> rb]
          ELSE [ok |-> TRUE,
                rb |-> [rb EXCEPT !.buffer[w] = SubSeq(samples, 1, rb.frameSamples),
                                  !.writeIndex = nextW]]

\* PacketWrite without the test of count: whatever the caller hands over is
\* stored
PacketWrite_NoCountTest(rb, samples, count) ==
  LET w == rb.writeIndex
      r == rb.readIndex
      nextW == (w + 1) % rb.maxFrames
  IN IF nextW = r
     THEN [ok |-> FALSE, rb |-> rb]
     ELSE [ok |-> TRUE,
           rb |-> [rb EXCEPT !.buffer[w] = samples, !.writeIndex = nextW]]

\* write(samples, count): [ok, rb]
PacketWrite(rb, samples, count) ==
  IF count # rb.frameSamples THEN [ok |-> FALSE, rb |-> rb]
  ELSE LET w == rb.writeIndex
           r == rb.readIndex
           nextW == (w + 1) % rb.maxFrames
       IN IF nextW = r
          THEN [ok |-> FALSE, rb |-> rb]
          ELSE [ok |-> TRUE,
                rb |-> [rb EXCEPT !.buffer[w] = SubSeq(samples, 1, rb.frameSamples),
                                  !.writeIndex = nextW]]

\* PacketRead without the test of count
PacketRead_NoCountTest(rb, count) ==
  LET r == rb.readIndex
      w == rb.writeIndex
  IN IF r = w
     THEN [ok |-> FALSE, data |-> <<>>, rb |-> rb]
     ELSE [ok |-> TRUE, data |-> rb.buffer[r],
           rb |-> [rb EXCEPT !.readIndex = (r + 1) % rb.maxFrames]]

\* read(dest, count): [ok, data, rb]; data is what memcpy moves to dest
PacketRead(rb, count) ==
  IF count # rb.frameSamples THEN [ok |-> FALSE, data |-> <<>>, rb |-> rb]
  ELSE LET r == rb.readIndex
           w == rb.writeIndex
       IN IF r = w
          THEN [ok |-> FALSE, data |-> <<>>, rb |-> rb]
          ELSE [ok |-> TRUE, data |-> rb.buffer[r],
                rb |-> [rb EXCEPT !.readIndex = (r + 1) % rb.maxFrames]]

availableFrames(rb) ==
  LET avail == rb.writeIndex - rb.readIndex
  IN IF avail < 0 THEN avail + rb.maxFrames ELSE avail

\* drain without the early return: the read index moves even when nothing is
\* to be discarded
drain_NoEarlyReturn(rb, framesToKeep) ==
  LET toDrain == availableFrames(rb) - framesToKeep
  IN  [rb EXCEPT !.readIndex = (rb.readIndex + toDrain) % rb.maxFrames]

\* drain(framesToKeep): the ring buffer after the call
drain(rb, framesToKeep) ==
  LET avail == availableFrames(rb)
      toDrain == avail - framesToKeep
  IN  IF toDrain <= 0 THEN rb
      ELSE [rb EXCEPT !.readIndex = (rb.readIndex + toDrain) % rb.maxFrames]

----------------------------------------------------------------------------
(* EncodedRingBuffer: variable-length SPSC ring buffer, whole calls *)

EncodedRingBuffer(maxSlots, maxBytesPerSlot) ==
  [maxSlots        |-> maxSlots,
   maxBytesPerSlot |-> maxBytesPerSlot,
   buffer          |-> [s \in 0..(maxSlots - 1) |-> [length |-> 0, data |-> <<>>]],
   writeIndex      |-> 0,
   readIndex       |-> 0]

\* write(data, length): [ok, rb]
EncodedWrite(rb, data, length) ==
  IF length <= 0 \/ length > rb.maxBytesPerSlot THEN [ok |-> FALSE, rb |-> rb]
  ELSE LET w == rb.writeIndex
           r == rb.readIndex
           nextW == (w + 1) % rb.maxSlots
       IN IF nextW = r
          THEN [ok |-> FALSE, rb |-> rb]
          ELSE [ok |-> TRUE,
                rb |-> [rb EXCEPT !.buffer[w] = [length |-> length,
                                                 data |-> SubSeq(data, 1, length)],
                                  !.writeIndex = nextW]]

\* EncodedRead that leaves the read index where it is when the destination
\* is too small
EncodedRead_NoSkip(rb, maxLength) ==
  LET r == rb.readIndex
      w == rb.writeIndex
  IN IF r = w
     THEN [ok |-> FALSE, set |-> FALSE, actualLength |-> 0, data |-> <<>>, rb |-> rb]
     ELSE LET length == rb.buffer[r].length
              adv == [rb EXCEPT !.readIndex = (r + 1) % rb.maxSlots]
          IN IF length > maxLength
             THEN [ok |-> FALSE, set |-> TRUE, actualLength |-> 0,
                   data |-> <<>>, rb |-> rb]
             ELSE [ok |-> TRUE, set |-> TRUE, actualLength |-> length,
                   data |-> rb.buffer[r].data, rb |-> adv]

\* read(dest, maxLength, actualLength): [ok, set, actualLength, data, rb];
\* set tells whether *actualLength was assigned
EncodedRead(rb, maxLength) ==
  LET r == rb.readIndex
      w == rb.writeIndex
  IN IF r = w
     THEN [ok |-> FALSE, set |-> FALSE, actualLength |-> 0, data |-> <<>>, rb |-> rb]
     ELSE LET length == rb.buffer[r].length
              adv == [rb EXCEPT !.readIndex = (r + 1) % rb.maxSlots]
          IN IF length > maxLength
             THEN [ok |-> FALSE, set |-> TRUE, actualLength |-> 0,
                   data |-> <<>>, rb |-> adv]
             ELSE [ok |-> TRUE, set |-> TRUE, actualLength |-> length,
                   data |-> rb.buffer[r].data, rb |-> adv]

\* availableSlots without the wrap-around correction
availableSlots_NoWrap(rb) == rb.writeIndex - rb.readIndex

availableSlots(rb) ==
  LET avail == rb.writeIndex - rb.readIndex
  IN IF avail < 0 THEN avail + rb.maxSlots ELSE avail

----------------------------------------------------------------------------
(* Ring buffers alone: any sequence of whole write and read calls *)

\* the step-level model at rest (no thread inside a ring-buffer call)
IdleThread == [pc |-> "idle", phase |-> "none", n |-> 0, w |-> 0, r |-> 0,
               item |-> <<>>, dest |-> 0, val |-> <<>>, skip |-> FALSE,
               over |-> FALSE, ok |-> FALSE, stored |-> FALSE]

StepIdle ==
  /\ pipeline = "none"
  /\ th = [t \in {"prod", "cons"} |-> IdleThread]
  /\ slotPub = {}
  /\ accepted = <<>>
  /\ delivered = <<>>
  /\ storers = [writeIndex |-> {}, readIndex |-> {}]
  /\ smashed = FALSE

\* the engines not constructed
NoPlay == [calls |-> 0, ret |-> FALSE]

NoCap == [fed |-> 0, bursts |-> 0, committed |-> <<>>, muted |-> FALSE,
          over |-> FALSE, crashed |-> FALSE, ret |-> "none",
          dirty |-> FALSE]

NoEngine ==
  /\ accumBuffer = <<>>
  /\ accumCount = 0
  /\ captureMuted = FALSE
  /\ capt = NoCap
  /\ isRecording = FALSE
  /\ err = "idle"
  /\ filterChain = Null
  /\ silenceBuf = <<>>
  /\ encoder = Null
  /\ frameSamples_ = 0
  /\ channels_ = 0
  /\ callbackBuffer = <<>>
  /\ callbackBufferOffset = 0
  /\ callbackBufferValid = 0
  /\ destroyed = FALSE
  /\ isCreated = FALSE
  /\ isPlaying = FALSE
  /\ stream = "none"
  /\ playbackMuted = FALSE
  /\ decoder = Null
  /\ decoderLock = FALSE
  /\ consecutivePlcCount = 0
  /\ cb = [pc |-> "idle", ret |-> "none", branch |-> "none"]
  /\ app = "idle"
  /\ output = <<>>
  /\ play = NoPlay

NoCall == [op |-> "none", variant |-> "none", wellFormed |-> TRUE, ok |-> FALSE,
           skipped |-> FALSE, occupied |-> 0, before |-> Null]

RingInit ==
  /\ \/ /\ \E n \in 1..MaxSlots, fs \in 1..MaxFrameSamples :
             ringBuffer = PacketRingBuffer(n, fs)
        /\ encodedRingBuffer = Null
     \/ /\ ringBuffer = Null
        /\ \E n \in 1..MaxSlots, mb \in 1..MaxBytes :
             encodedRingBuffer = EncodedRingBuffer(n, mb)
  /\ okWrites = 0
  /\ okReads = 0
  /\ skipReads = 0
  /\ last = NoCall
  /\ StepIdle
  /\ NoEngine

\* slots written and not yet read or dropped, from the history of the calls
Occupied == okWrites - okReads - skipReads

\* PacketRingBuffer::write with any count; the frame carries the number of the write
RingWrite ==
  /\ ringBuffer # Null
  /\ okWrites < MaxOps
  /\ \E count \in 0..(MaxFrameSamples + 1) :
       LET res == PacketWrite(ringBuffer, Fill(count, okWrites + 1), count)
       IN /\ ringBuffer' = res.rb
          /\ okWrites' = IF res.ok THEN okWrites + 1 ELSE okWrites
          /\ last' = [op |-> "write", variant |-> "pcm",
                      wellFormed |-> (count = ringBuffer.frameSamples),
                      ok |-> res.ok, skipped |-> FALSE,
                      occupied |-> Occupied, before |-> ringBuffer]
  /\ UNCHANGED <<encodedRingBuffer, okReads, skipReads>>
  /\ UNCHANGED <<stepVars, engineVars>>

\* PacketRingBuffer::read with any count
RingRead ==
  /\ ringBuffer # Null
  /\ \E count \in 0..(MaxFrameSamples + 1) :
       LET res == PacketRead(ringBuffer, count)
       IN /\ ringBuffer' = res.rb
          /\ okReads' = IF res.ok THEN okReads + 1 ELSE okReads
          /\ last' = [op |-> "read", variant |-> "pcm",
                      wellFormed |-> (count = ringBuffer.frameSamples),
                      ok |-> res.ok, skipped |-> FALSE,
                      occupied |-> Occupied, before |-> ringBuffer]
  /\ UNCHANGED <<encodedRingBuffer, okWrites, skipReads>>
  /\ UNCHANGED <<stepVars, engineVars>>

\* EncodedRingBuffer::write with any length
EncRingWrite ==
  /\ encodedRingBuffer # Null
  /\ okWrites < MaxOps
  /\ \E length \in 0..(MaxBytes + 1) :
       LET res == EncodedWrite(encodedRingBuffer, Fill(length, okWrites + 1), length)
       IN /\ encodedRingBuffer' = res.rb
          /\ okWrites' = IF res.ok THEN okWrites + 1 ELSE okWrites
          /\ last' = [op |-> "write", variant |-> "enc",
                      wellFormed |-> (length > 0
                                      /\ length <= encodedRingBuffer.maxBytesPerSlot),
                      ok |-> res.ok, skipped |-> FALSE,
                      occupied |-> Occupied, before |-> encodedRingBuffer]
  /\ UNCHANGED <<ringBuffer, okReads, skipReads>>
  /\ UNCHANGED <<stepVars, engineVars>>

\* EncodedRingBuffer::read with any destination size
EncRingRead ==
  /\ encodedRingBuffer # Null
  /\ \E maxLength \in 0..MaxBytes :
       LET res == EncodedRead(encodedRingBuffer, maxLength)
       IN /\ encodedRingBuffer' = res.rb
          /\ okReads' = IF res.ok THEN okReads + 1 ELSE okReads
          /\ skipReads' = IF res.set /\ ~res.ok THEN skipReads + 1 ELSE skipReads
          /\ last' = [op |-> "read", variant |-> "enc", wellFormed |-> TRUE,
                      ok |-> res.ok, skipped |-> (res.set /\ ~res.ok),
                      occupied |-> Occupied, before |-> encodedRingBuffer]
  /\ UNCHANGED <<ringBuffer, okWrites>>
  /\ UNCHANGED <<stepVars, engineVars>>

RingNext == RingWrite \/ RingRead \/ EncRingWrite \/ EncRingRead

RingSpec == RingInit /\ [][RingNext]_vars

\* PacketRingBuffer::drain with any number of frames to keep; the frames it
\* discards count with the dropped ones
RingDrain ==
  /\ ringBuffer # Null
  /\ \E framesToKeep \in 0..MaxSlots :
       LET after == drain(ringBuffer, framesToKeep)
       IN  /\ ringBuffer' = after
           /\ skipReads' = skipReads + availableFrames(ringBuffer)
                                     - availableFrames(after)
           /\ last' = [op |-> "drain", variant |-> "pcm", wellFormed |-> TRUE,
                       ok |-> TRUE, skipped |-> FALSE, occupied |-> Occupied,
                       before |-> ringBuffer, keep |-> framesToKeep]
  /\ UNCHANGED <<encodedRingBuffer, okWrites, okReads>>
  /\ UNCHANGED <<stepVars, engineVars>>

\* the fixed-frame ring buffer with drain
DrainInit == RingInit /\ ringBuffer # Null

DrainNext == RingWrite \/ RingRead \/ RingDrain

DrainSpec == DrainInit /\ [][DrainNext]_vars

\* number of slots of the backing array of either variant
SlotsOf(rb) == IF "maxFrames" \in DOMAIN rb THEN rb.maxFrames ELSE rb.maxSlots

TheRing == IF ringBuffer # Null THEN ringBuffer ELSE encodedRingBuffer

Orig_C5 ==
  /\ okReads <= okWrites
  /\ ringBuffer # Null =>
        availableFrames(ringBuffer) = (okWrites - okReads) % ringBuffer.maxFrames
  /\ encodedRingBuffer # Null =>
        availableSlots(encodedRingBuffer)
          = (okWrites - okReads) % encodedRingBuffer.maxSlots

\* C5 amended: as stated for the fixed-frame variant; for the variable-length
\* variant the packets dropped by a read with a too small destination count
\* with the successful reads.
Thm_C5 ==
  /\ okReads + skipReads <= okWrites
  /\ ringBuffer # Null =>
        availableFrames(ringBuffer) = (okWrites - okReads) % ringBuffer.maxFrames
  /\ encodedRingBuffer # Null =>
        availableSlots(encodedRingBuffer)
          = (okWrites - okReads - skipReads) % encodedRingBuffer.maxSlots

\* C5 witness: a variable-length buffer whose indices have wrapped, after a
\* successful read and a dropped packet
Wit_C5 ==
  /\ encodedRingBuffer # Null
  /\ okReads >= 1 /\ skipReads >= 1
  /\ encodedRingBuffer.writeIndex < encodedRingBuffer.readIndex

----------------------------------------------------------------------------
(* Ring buffers step by step: every load, copy and store of write and read *)
(* is one step of the calling thread, so that calls of the two threads     *)
(* interleave. A memcpy is two steps (begun, finished); a slot that is     *)
(* being overwritten, or the copy of a slot that changed under the copy,   *)
(* holds indeterminate data (TornItem).                                    *)

Threads == {"prod", "cons"}

IsPcm == ringBuffer # Null

SetRing(new) ==
  IF IsPcm THEN ringBuffer' = new /\ UNCHANGED encodedRingBuffer
  ELSE encodedRingBuffer' = new /\ UNCHANGED ringBuffer

TornItem == << -1 >>
TornSlot == IF IsPcm THEN TornItem ELSE [length |-> -1, data |-> TornItem]
SlotOf(item) == IF IsPcm THEN item ELSE [length |-> Len(item), data |-> item]
ItemOf(slot) == IF IsPcm THEN slot ELSE slot.data

\* where the caller goes when write returns ok: a bare write call and
\* writeSamples / the capture commit after a successful or a second write
\* return; a first write refused makes the caller evict with read
AfterWrite(f, ok) ==
  IF f.phase = "first" /\ ~ok
  THEN [f EXCEPT !.phase = "drop", !.pc = "r_load_r", !.skip = FALSE,
                 !.dest = IF pipeline = "playback" THEN TheRing.frameSamples ELSE 1]
  ELSE [f EXCEPT !.pc = "idle", !.ok = ok, !.stored = ok]

\* where the caller goes when read returns ok. The evicting read of the
\* capture callback copies frameSamples samples into int16_t discard[1]:
\* past its end the caller's frame is overwritten, after which it may go
\* on unharmed, go on with an overwritten frame pointer, or crash.
AfterRead(f, ok) ==
  IF f.phase = "drop"
  THEN LET g == [f EXCEPT !.phase = "retry", !.pc = "w_load_w"]
       IN IF f.over
          THEN {g, [g EXCEPT !.item = TornItem], [g EXCEPT !.pc = "crashed"]}
          ELSE {g}
  ELSE {[f EXCEPT !.pc = "idle", !.ok = ok]}

\* int w = writeIndex_.load(relaxed)
WriteLoadW(t) ==
  /\ th[t].pc = "w_load_w"
  /\ th' = [th EXCEPT ![t].w = TheRing.writeIndex, ![t].pc = "w_load_r"]
  /\ UNCHANGED <<ringVars, restVars, pipeline, slotPub, accepted, delivered,
                 storers, smashed>>

\* WriteLoadR without the full test: write never returns false
WriteLoadR_NoFullTest(t) ==
  /\ th[t].pc = "w_load_r"
  /\ th' = [th EXCEPT ![t].r = TheRing.readIndex, ![t].pc = "w_copy"]
  /\ UNCHANGED <<ringVars, restVars, pipeline, slotPub, accepted, delivered,
                 storers, smashed>>

\* int r = readIndex_.load(acquire); if (nextW == r) return false
WriteLoadR(t) ==
  /\ th[t].pc = "w_load_r"
  /\ LET r == TheRing.readIndex
         nextW == (th[t].w + 1) % SlotsOf(TheRing)
         f == [th[t] EXCEPT !.r = r]
     IN th' = [th EXCEPT ![t] = IF nextW = r THEN AfterWrite(f, FALSE)
                                 ELSE [f EXCEPT !.pc = "w_copy"]]
  /\ UNCHANGED <<ringVars, restVars, pipeline, slotPub, accepted, delivered,
                 storers, smashed>>

\* memcpy into slot w begins
WriteCopyBegin(t) ==
  /\ th[t].pc = "w_copy"
  /\ SetRing([TheRing EXCEPT !.buffer[th[t].w] = TornSlot])
  /\ th' = [th EXCEPT ![t].pc = "w_copy_end"]
  /\ UNCHANGED <<restVars, pipeline, slotPub, accepted, delivered, storers, smashed>>

\* memcpy into slot w is complete
WriteCopyEnd(t) ==
  /\ th[t].pc = "w_copy_end"
  /\ SetRing([TheRing EXCEPT !.buffer[th[t].w] = SlotOf(th[t].item)])
  /\ th' = [th EXCEPT ![t].pc = "w_store"]
  /\ UNCHANGED <<restVars, pipeline, slotPub, accepted, delivered, storers, smashed>>

\* writeIndex_.store(nextW, release); return true
WriteStore(t) ==
  /\ th[t].pc = "w_store"
  /\ SetRing([TheRing EXCEPT !.writeIndex = (th[t].w + 1) % SlotsOf(TheRing)])
  /\ th' = [th EXCEPT ![t] = AfterWrite(th[t], TRUE)]
  /\ slotPub' = slotPub \cup {th[t].w}
  /\ accepted' = Append(accepted, th[t].item)
  /\ storers' = [storers EXCEPT !.writeIndex = @ \cup {t}]
  /\ UNCHANGED <<restVars, pipeline, delivered, smashed>>

\* int r = readIndex_.load(relaxed)
ReadLoadR(t) ==
  /\ th[t].pc = "r_load_r"
  /\ th' = [th EXCEPT ![t].r = TheRing.readIndex, ![t].pc = "r_load_w"]
  /\ UNCHANGED <<ringVars, restVars, pipeline, slotPub, accepted, delivered,
                 storers, smashed>>

\* ReadLoadW without the empty test: read never returns false
ReadLoadW_NoEmptyTest(t) ==
  /\ th[t].pc = "r_load_w"
  /\ th' = [th EXCEPT ![t].w = TheRing.writeIndex, ![t].pc = "r_copy"]
  /\ UNCHANGED <<ringVars, restVars, pipeline, slotPub, accepted, delivered,
                 storers, smashed>>

\* int w = writeIndex_.load(acquire); if (r == w) return false
ReadLoadW(t) ==
  /\ th[t].pc = "r_load_w"
  /\ LET w == TheRing.writeIndex
         f == [th[t] EXCEPT !.w = w]
     IN \E g \in (IF th[t].r = w THEN AfterRead(f, FALSE)
                  ELSE {[f EXCEPT !.pc = "r_copy"]}) :
          th' = [th EXCEPT ![t] = g]
  /\ UNCHANGED <<ringVars, restVars, pipeline, slotPub, accepted, delivered,
                 storers, smashed>>

\* memcpy out of slot r begins. Fixed-frame: frameSamples samples go to dest.
\* Variable-length: the length prefix is read first, and a packet longer
\* than the destination is skipped; an indeterminate prefix may go either way.
ReadCopyBegin(t) ==
  /\ th[t].pc = "r_copy"
  /\ LET slot == TheRing.buffer[th[t].r]
         copy == [th[t] EXCEPT !.val = ItemOf(slot), !.pc = "r_copy_end",
                               !.over = IsPcm /\ TheRing.frameSamples > th[t].dest]
         skip == [th[t] EXCEPT !.val = <<>>, !.skip = TRUE, !.pc = "r_store"]
     IN /\ \E g \in (IF IsPcm THEN {copy}
                     ELSE IF slot = TornSlot THEN {copy, skip}
                     ELSE IF slot.length > th[t].dest THEN {skip} ELSE {copy}) :
             th' = [th EXCEPT ![t] = g]
        /\ smashed' = (smashed \/ (IsPcm /\ TheRing.frameSamples > th[t].dest))
  /\ UNCHANGED <<ringVars, restVars, pipeline, slotPub, accepted, delivered, storers>>

\* memcpy out of slot r is complete
ReadCopyEnd(t) ==
  /\ th[t].pc = "r_copy_end"
  /\ th' = [th EXCEPT ![t].pc = "r_store",
                      ![t].val = IF ItemOf(TheRing.buffer[th[t].r]) = @
                                 THEN @ ELSE TornItem]
  /\ UNCHANGED <<ringVars, restVars, pipeline, slotPub, accepted, delivered,
                 storers, smashed>>

\* readIndex_.store((r + 1) % N, release); return true (false for a skipped packet)
ReadStore(t) ==
  /\ th[t].pc = "r_store"
  /\ SetRing([TheRing EXCEPT !.readIndex = (th[t].r + 1) % SlotsOf(TheRing)])
  /\ \E g \in AfterRead(th[t], ~th[t].skip) : th' = [th EXCEPT ![t] = g]
  /\ slotPub' = slotPub \ {th[t].r}
  /\ delivered' = IF t = "cons" /\ ~th[t].skip THEN Append(delivered, th[t].val)
                  ELSE delivered
  /\ storers' = [storers EXCEPT !.readIndex = @ \cup {t}]
  /\ UNCHANGED <<restVars, pipeline, accepted, smashed>>

\* the item a producer hands over: the number of the call, in every element
NewItem(len) == Fill(len, th["prod"].n + 1)

\* the producer thread calls write(item)
ProdWrite ==
  /\ pipeline = "none"
  /\ th["prod"].pc = "idle" /\ th["prod"].n < MaxItems
  /\ \E len \in (IF IsPcm THEN {TheRing.frameSamples}
                 ELSE 1..TheRing.maxBytesPerSlot) :
       th' = [th EXCEPT !["prod"] = [IdleThread EXCEPT !.pc = "w_load_w",
                                       !.n = th["prod"].n + 1,
                                       !.item = NewItem(len)]]
  /\ UNCHANGED <<ringVars, restVars, pipeline, slotPub, accepted, delivered,
                 storers, smashed>>

\* the consumer thread calls read(dest): readSamples / readEncodedPacket of the
\* capture engine, ringBuffer_->read of the playback callback
ConsRead ==
  /\ th["cons"].pc = "idle"
  /\ \E cap \in (IF IsPcm THEN {TheRing.frameSamples} ELSE 0..MaxBytes) :
       th' = [th EXCEPT !["cons"] = [IdleThread EXCEPT !.pc = "r_load_r",
                                       !.dest = cap]]
  /\ UNCHANGED <<ringVars, restVars, pipeline, slotPub, accepted, delivered,
                 storers, smashed>>

StepInit(pipes) ==
  /\ \/ /\ \E n \in 1..MaxSlots, fs \in 1..MaxFrameSamples :
             ringBuffer = PacketRingBuffer(n, fs)
        /\ encodedRingBuffer = Null
        /\ pipeline \in pipes \ {"captureEnc"}
     \/ /\ ringBuffer = Null
        /\ \E n \in 1..MaxSlots, mb \in 1..MaxBytes :
             encodedRingBuffer = EncodedRingBuffer(n, mb)
        /\ pipeline \in pipes \ {"playback", "capturePcm"}
  /\ okWrites = 0 /\ okReads = 0 /\ skipReads = 0 /\ last = NoCall
  /\ th = [t \in Threads |-> IdleThread]
  /\ slotPub = {}
  /\ accepted = <<>>
  /\ delivered = <<>>
  /\ storers = [writeIndex |-> {}, readIndex |-> {}]
  /\ smashed = FALSE
  /\ NoEngine

(* One producer thread that only calls write, one consumer thread that only *)
(* calls read                                                                *)
SpscInit == StepInit({"none"})

SpscNext ==
  \/ ProdWrite
  \/ ConsRead
  \/ WriteLoadW("prod") \/ WriteLoadR("prod") \/ WriteCopyBegin("prod")
  \/ WriteCopyEnd("prod") \/ WriteStore("prod")
  \/ ReadLoadR("cons") \/ ReadLoadW("cons") \/ ReadCopyBegin("cons")
  \/ ReadCopyEnd("cons") \/ ReadStore("cons")

SpscSpec == SpscInit /\ [][SpscNext]_vars

IsPrefix(a, b) == Len(a) <= Len(b) /\ \A i \in 1..Len(a) : a[i] = b[i]

\* C1: with a producer that only writes and a consumer that only reads, under
\* every interleaving of their loads, copies and stores, a read copies only
\* from a slot whose write was completed and published, a write copies only
\* into a slot the consumer has released, and no copy sees indeterminate data.
Thm_C1 ==
  /\ th["cons"].pc \in {"r_copy", "r_copy_end"} => th["cons"].r \in slotPub
  /\ th["prod"].pc \in {"w_copy", "w_copy_end"} => th["prod"].w \notin slotPub
  /\ th["cons"].val # TornItem
  /\ \A i \in 1..Len(delivered) : delivered[i] # TornItem

\* C1 witness: both threads are inside their memcpy at once, on a 3-slot
\* buffer whose write index has wrapped
Wit_C1 ==
  /\ th["cons"].pc = "r_copy_end" /\ th["prod"].pc = "w_copy_end"
  /\ SlotsOf(TheRing) = 3 /\ Len(accepted) = 3

\* C4: on the fixed-frame buffer the frames returned by successful reads are a
\* prefix of the frames accepted by successful writes, contents included.
Thm_C4 == IsPcm => IsPrefix(delivered, accepted)

\* C4 witness: the scenario on 3 slots: frames 1 and 2 accepted, 3 refused
\* (full), one read, the next frame accepted, and the reads returned 1, 2, 4
Wit_C4 ==
  /\ IsPcm /\ TheRing.maxFrames = 3 /\ TheRing.frameSamples = 2
  /\ accepted = <<Fill(2, 1), Fill(2, 2), Fill(2, 4)>>
  /\ delivered = accepted

----------------------------------------------------------------------------
(* The pipelines step by step: the producer hands every frame over with the *)
(* write / evict-with-read / write-again sequence of writeSamples (playback, *)
(* application thread) or of the capture callback (PCM or encoded path),     *)
(* while the consumer thread reads.                                          *)

\* playback: writeSamples(samples, frameSamples); capture: a completed frame
\* (or its encoding) reaches ringBuffer_->write / encodedRingBuffer_->write
ProdHandOver ==
  /\ pipeline # "none"
  /\ th["prod"].pc = "idle" /\ th["prod"].n < MaxItems
  /\ \E len \in (IF IsPcm THEN {TheRing.frameSamples}
                 ELSE 1..TheRing.maxBytesPerSlot) :
       th' = [th EXCEPT !["prod"] = [IdleThread EXCEPT !.pc = "w_load_w",
                                       !.phase = "first",
                                       !.n = th["prod"].n + 1,
                                       !.item = NewItem(len)]]
  /\ UNCHANGED <<ringVars, restVars, pipeline, slotPub, accepted, delivered,
                 storers, smashed>>

PipeInit == StepInit({"playback", "capturePcm", "captureEnc"})

PipeNext ==
  \/ ProdHandOver
  \/ ConsRead
  \/ \E t \in Threads :
       \/ WriteLoadW(t) \/ WriteLoadR(t) \/ WriteCopyBegin(t)
       \/ WriteCopyEnd(t) \/ WriteStore(t)
       \/ ReadLoadR(t) \/ ReadLoadW(t) \/ ReadCopyBegin(t)
       \/ ReadCopyEnd(t) \/ ReadStore(t)

PipeSpec == PipeInit /\ [][PipeNext]_vars

\* C2: in the pipelines, buffer-full handling included, the read index is
\* stored to only by the consumer thread and the write index only by the
\* producer thread.
Orig_C2 ==
  /\ storers.readIndex \subseteq {"cons"}
  /\ storers.writeIndex \subseteq {"prod"}

\* C7: with at least 2 slots, under every interleaving with the consumer, every
\* item the producer hands over has been stored by a write that returned true
\* when the producer's operation returns.
Orig_C7 ==
  (SlotsOf(TheRing) >= 2 /\ th["prod"].pc = "idle" /\ th["prod"].n >= 1)
    => th["prod"].stored

----------------------------------------------------------------------------
(* OboePlaybackEngine, whole calls: the application thread writes frames or  *)
(* encoded packets, the driver's thread pulls bursts with onAudioReady.      *)
(* The callback is two steps, its entry (the destroyed_ and playbackMuted_   *)
(* tests) and its body, so that the application thread can run in between.   *)
(* The application reaches the engine through the JNI entry points, which    *)
(* delete it on destroy: no call arrives at a destroyed engine.              *)

\* an output position the callback has not written yet: outside int16_t
Uninit == 70000

\* the k-th frame handed to the engine, count samples all different
Frame(k, count) == [i \in 1..count |-> 10 * k + i]

\* std::memcpy(buf + at, data, n) and std::memset(buf + at, 0, n)
Memcpy(buf, at, data, n) ==
  [i \in DOMAIN buf |-> IF i > at /\ i <= at + n THEN data[i - at] ELSE buf[i]]

Memset(buf, at, n) ==
  [i \in DOMAIN buf |-> IF i > at /\ i <= at + n THEN 0 ELSE buf[i]]

\* the frames a fixed-frame ring buffer holds, oldest first
RECURSIVE FramesFrom(_, _)
FramesFrom(rb, r) ==
  IF r = rb.writeIndex THEN <<>>
  ELSE <<rb.buffer[r]>> \o FramesFrom(rb, (r + 1) % rb.maxFrames)

Contents(rb) == IF rb = Null THEN <<>> ELSE FramesFrom(rb, rb.readIndex)

\* writeSamples without the evicting read
writeSamples_NoEvict(rb, samples, count) ==
  IF rb = Null THEN [ret |-> FALSE, rb |-> rb]
  ELSE LET w1 == PacketWrite(rb, samples, count) IN
       IF ~w1.ok
       THEN [ret |-> FALSE, rb |-> PacketWrite(w1.rb, samples, count).rb]
       ELSE [ret |-> TRUE, rb |-> w1.rb]

writeSamples(rb, samples, count) ==
  IF rb = Null THEN [ret |-> FALSE, rb |-> rb]
  ELSE LET w1 == PacketWrite(rb, samples, count) IN
       IF ~w1.ok
       THEN LET rd == PacketRead(w1.rb, count)
                w2 == PacketWrite(rd.rb, samples, count)
            IN  [ret |-> FALSE, rb |-> w2.rb]
       ELSE [ret |-> TRUE, rb |-> w1.rb]

\* the history of the last writeSamples call
NoteWrite(res) == [calls |-> play.calls + 1, ret |-> res.ret]

WriteSamplesCall(count) ==
  /\ isCreated
  /\ app = "idle" /\ play.calls < MaxWrites
  /\ LET frame == Frame(play.calls + 1, count)
         res == writeSamples(ringBuffer, frame, count)
     IN  /\ ringBuffer' = res.rb
         /\ play' = NoteWrite(res)
  /\ UNCHANGED <<encodedRingBuffer, histVars, stepVars, capVars, frameSamples_,
                 channels_, callbackBuffer, callbackBufferOffset,
                 callbackBufferValid, destroyed, isCreated, isPlaying, stream,
                 playbackMuted, decoder, decoderLock, consecutivePlcCount, cb,
                 app, output>>

\* the application writes a frame, of the frame size or not
AppWriteSamples ==
  \E count \in {frameSamples_, frameSamples_ + 1} : WriteSamplesCall(count)

\* writeEncodedPacket that does not spin on decoderLock_
EncodedPacketLock_NoSpin ==
  /\ isCreated
  /\ app = "idle" /\ play.calls < MaxWrites
  /\ decoder # Null /\ ringBuffer # Null
  /\ decoderLock' = TRUE
  /\ app' = "locked"
  /\ UNCHANGED <<ringVars, histVars, stepVars, capVars, frameSamples_, channels_,
                 callbackBuffer, callbackBufferOffset, callbackBufferValid,
                 destroyed, isCreated, isPlaying, stream, playbackMuted,
                 decoder, consecutivePlcCount, cb, output, play>>

\* writeEncodedPacket up to the acquisition of decoderLock_
EncodedPacketLock ==
  /\ isCreated
  /\ app = "idle" /\ play.calls < MaxWrites
  /\ decoder # Null /\ ringBuffer # Null
  /\ ~decoderLock
  /\ decoderLock' = TRUE
  /\ app' = "locked"
  /\ UNCHANGED <<ringVars, histVars, stepVars, capVars, frameSamples_, channels_,
                 callbackBuffer, callbackBufferOffset, callbackBufferValid,
                 destroyed, isCreated, isPlaying, stream, playbackMuted,
                 decoder, consecutivePlcCount, cb, output, play>>

\* writeEncodedPacket from decode to its return; decode yields a failure or a
\* number of samples that need not be frameSamples_
EncodedPacketDecoded(decodedSamples) ==
  /\ app = "locked"
  /\ decoderLock' = FALSE
  /\ app' = "idle"
  /\ IF decodedSamples <= 0
     THEN /\ UNCHANGED ringBuffer
          /\ play' = [play EXCEPT !.ret = FALSE]
     ELSE LET frame == Frame(play.calls + 1, decodedSamples)
              res == writeSamples(ringBuffer, frame, decodedSamples)
          IN  /\ ringBuffer' = res.rb
              /\ play' = NoteWrite(res)
  /\ UNCHANGED <<encodedRingBuffer, histVars, stepVars, capVars, frameSamples_,
                 channels_, callbackBuffer, callbackBufferOffset,
                 callbackBufferValid, destroyed, isCreated, isPlaying, stream,
                 playbackMuted, decoder, consecutivePlcCount, cb, output>>

EncodedPacketDecode ==
  \E decodedSamples \in -1..(frameSamples_ + 1) :
     EncodedPacketDecoded(decodedSamples)

\* configureDecoder: destroyDecoder, then a decoder of the type asked for or
\* none when its creation fails.  It does not take decoderLock_: a callback
\* that is inside decodePlc is left with the freed instance.
configureDecoder ==
  /\ isCreated
  /\ app = "idle"
  /\ \E d \in {Null, [type |-> "OPUS"], [type |-> "CODEC2"]} : decoder' = d
  /\ cb' = IF cb.pc = "plc" THEN [cb EXCEPT !.pc = "plcStale"] ELSE cb
  /\ UNCHANGED <<ringVars, histVars, stepVars, capVars, frameSamples_, channels_,
                 callbackBuffer, callbackBufferOffset, callbackBufferValid,
                 destroyed, isCreated, isPlaying, stream, playbackMuted,
                 decoderLock, consecutivePlcCount, app, output, play>>

setPlaybackMute ==
  /\ isCreated
  /\ app = "idle"
  /\ \E mute \in BOOLEAN : playbackMuted' = mute
  /\ UNCHANGED <<ringVars, histVars, stepVars, capVars, frameSamples_, channels_,
                 callbackBuffer, callbackBufferOffset, callbackBufferValid,
                 destroyed, isCreated, isPlaying, stream, decoder, decoderLock,
                 consecutivePlcCount, cb, app, output, play>>

\* startStream: openStream succeeds or fails
startStream ==
  /\ app = "idle"
  /\ isCreated /\ ~isPlaying
  /\ \E opened \in BOOLEAN :
       /\ isPlaying' = opened
       /\ stream' = IF opened THEN "open" ELSE "none"
  /\ UNCHANGED <<ringVars, histVars, stepVars, capVars, frameSamples_, channels_,
                 callbackBuffer, callbackBufferOffset, callbackBufferValid,
                 destroyed, isCreated, playbackMuted, decoder, decoderLock,
                 consecutivePlcCount, cb, app, output, play>>

stopStream ==
  /\ isCreated
  /\ app = "idle"
  /\ isPlaying' = FALSE
  /\ stream' = "none"
  /\ UNCHANGED <<ringVars, histVars, stepVars, capVars, frameSamples_, channels_,
                 callbackBuffer, callbackBufferOffset, callbackBufferValid,
                 destroyed, isCreated, playbackMuted, decoder, decoderLock,
                 consecutivePlcCount, cb, app, output, play>>

destroy ==
  /\ app = "idle" /\ isCreated
  /\ destroyed' = TRUE
  /\ isPlaying' = FALSE
  /\ stream' = "none"
  /\ decoder' = Null
  /\ ringBuffer' = Null
  /\ callbackBuffer' = <<>>
  /\ callbackBufferOffset' = 0
  /\ callbackBufferValid' = 0
  /\ isCreated' = FALSE
  /\ consecutivePlcCount' = 0
  /\ UNCHANGED <<encodedRingBuffer, histVars, stepVars, capVars, frameSamples_,
                 channels_, playbackMuted, decoderLock, cb, app, output, play>>

\* the part of the lookahead frame not served yet
Pending ==
  SubSeq(callbackBuffer, callbackBufferOffset + 1, callbackBufferValid)

\* the entry that does not test destroyed_
EnterBranch_NoDestroyed == IF playbackMuted THEN "muted" ELSE "body"

\* the entry that does not test playbackMuted_
EnterBranch_NoMute == IF destroyed THEN "destroyed" ELSE "body"

\* if (destroyed_.load()) ... if (playbackMuted_.load()) ...
EnterBranch ==
  IF destroyed THEN "destroyed" ELSE IF playbackMuted THEN "muted" ELSE "body"

\* onAudioReady up to the loop: the destroyed_ and playbackMuted_ branches
\* return from here, with silence in every output position
CallbackEnter ==
  /\ cb.pc = "idle"
  /\ stream = "open" \/ destroyed
  /\ \E numFrames \in 1..(MaxBurst \div channels_) :
       LET totalSamples == numFrames * channels_
           blank == Fill(totalSamples, Uninit)
       IN  IF EnterBranch = "destroyed"
           THEN /\ output' = Memset(blank, 0, totalSamples)
                /\ cb' = [pc |-> "idle",
                          ret |-> "Stop", branch |-> "destroyed"]
           ELSE IF EnterBranch = "muted"
           THEN /\ output' = Memset(blank, 0, totalSamples)
                /\ cb' = [pc |-> "idle",
                          ret |-> IF isPlaying THEN "Continue" ELSE "Stop",
                          branch |-> "muted"]
           ELSE /\ output' = blank
                /\ cb' = [pc |-> "body",
                          ret |-> "none", branch |-> "none"]
  /\ UNCHANGED <<ringVars, histVars, stepVars, capVars, frameSamples_, channels_,
                 callbackBuffer, callbackBufferOffset, callbackBufferValid,
                 destroyed, isCreated, isPlaying, stream, playbackMuted,
                 decoder, decoderLock, consecutivePlcCount, app, play>>

\* the locals and fields the loop of onAudioReady works on
LoopState ==
  [out |-> output, samplesWritten |-> 0, rb |-> ringBuffer,
   cbuf |-> callbackBuffer, offset |-> callbackBufferOffset,
   valid |-> callbackBufferValid, plc |-> consecutivePlcCount,
   empty |-> FALSE]

\* 1) drain leftover samples of a partially consumed frame
LoopDrain(L, remaining) ==
  LET available == L.valid - L.offset
      toCopy == IF remaining < available THEN remaining ELSE available
      offset == L.offset + toCopy
  IN  [L EXCEPT !.out = Memcpy(L.out, L.samplesWritten,
                               SubSeq(L.cbuf, L.offset + 1, offset), toCopy),
                !.samplesWritten = @ + toCopy,
                !.offset = IF offset >= L.valid THEN 0 ELSE offset,
                !.valid = IF offset >= L.valid THEN 0 ELSE @]

\* 2) room for a whole frame: read directly into the output
LoopReadDirect(L) ==
  LET rd == PacketRead(L.rb, frameSamples_) IN
  IF rd.ok
  THEN [L EXCEPT !.out = Memcpy(L.out, L.samplesWritten, rd.data,
                                frameSamples_),
                 !.samplesWritten = @ + frameSamples_,
                 !.rb = rd.rb, !.plc = 0]
  ELSE [L EXCEPT !.empty = TRUE]

\* the lookahead read that forgets how much it served
LoopReadLookahead_NoOffset(L, remaining) ==
  LET rd == PacketRead(L.rb, frameSamples_) IN
  IF rd.ok
  THEN [L EXCEPT !.cbuf = rd.data,
                 !.out = Memcpy(L.out, L.samplesWritten, rd.data, remaining),
                 !.samplesWritten = @ + remaining,
                 !.offset = 0, !.valid = frameSamples_,
                 !.rb = rd.rb, !.plc = 0]
  ELSE [L EXCEPT !.empty = TRUE]

\* 2) fewer samples needed than a frame: read into callbackBuffer_, serve the
\* prefix, keep the remainder
LoopReadLookahead(L, remaining) ==
  LET rd == PacketRead(L.rb, frameSamples_) IN
  IF rd.ok
  THEN [L EXCEPT !.cbuf = rd.data,
                 !.out = Memcpy(L.out, L.samplesWritten, rd.data, remaining),
                 !.samplesWritten = @ + remaining,
                 !.offset = remaining, !.valid = frameSamples_,
                 !.rb = rd.rb, !.plc = 0]
  ELSE [L EXCEPT !.empty = TRUE]

\* while (samplesWritten < totalSamples && ringBuffer_)
RECURSIVE PlayLoop(_, _)
PlayLoop(L, totalSamples) ==
  IF ~(L.samplesWritten < totalSamples /\ L.rb # Null) \/ L.empty THEN L
  ELSE LET remaining == totalSamples - L.samplesWritten IN
       IF L.valid > 0 THEN PlayLoop(LoopDrain(L, remaining), totalSamples)
       ELSE IF remaining >= frameSamples_
       THEN PlayLoop(LoopReadDirect(L), totalSamples)
       ELSE PlayLoop(LoopReadLookahead(L, remaining), totalSamples)

\* a concealment frame: samples no frame of the application has
PlcFrame(n) == Fill(n, -7)

\* decodePlc(output, frameSize): a failure, or a frame of frameSize samples
\* for each channel written to output
decodePlc(buf, frameSize) ==
  LET n == frameSize * channels_ IN
  {[ret |-> -1, buf |-> buf], [ret |-> n, buf |-> Memcpy(buf, 0, PlcFrame(n), n)]}

\* concealment tried however many concealment frames came before
PlcWanted_NoCap(L) == decoder # Null /\ decoder.type = "OPUS"

\* decoder_ && decoder_->type() == CodecType::OPUS && consecutivePlcCount_ < 5
PlcWanted(L) == decoder # Null /\ decoder.type = "OPUS" /\ L.plc < 5

\* the underrun fill that leaves what concealment did not cover as it is
Underrun_NoZeroAfterPlc(L, totalSamples, locked, plc) ==
  IF PlcWanted(L) /\ ~locked
     /\ plc.ret > 0
  THEN LET remaining == totalSamples - L.samplesWritten
           toCopy == IF remaining < plc.ret THEN remaining ELSE plc.ret
       IN  [L EXCEPT !.out = Memcpy(L.out, L.samplesWritten, plc.buf, toCopy),
                     !.cbuf = plc.buf, !.plc = @ + 1,
                     !.samplesWritten = @ + toCopy]
  ELSE [L EXCEPT !.out = Memset(L.out, L.samplesWritten,
                                totalSamples - L.samplesWritten)]

\* if (samplesWritten < totalSamples): concealment or silence.  plc is the
\* outcome of decodePlc when it is called.
Underrun(L, totalSamples, locked, plc) ==
  IF PlcWanted(L) /\ ~locked
  THEN IF plc.ret > 0
       THEN LET remaining == totalSamples - L.samplesWritten
                toCopy == IF remaining < plc.ret THEN remaining ELSE plc.ret
                out == Memcpy(L.out, L.samplesWritten, plc.buf, toCopy)
                samplesWritten == L.samplesWritten + toCopy
            IN  [L EXCEPT !.out = Memset(out, samplesWritten,
                                         totalSamples - samplesWritten),
                          !.cbuf = plc.buf, !.plc = @ + 1,
                          !.samplesWritten = samplesWritten]
       ELSE [L EXCEPT !.cbuf = plc.buf,
                      !.out = Memset(L.out, L.samplesWritten,
                                     totalSamples - L.samplesWritten)]
  ELSE [L EXCEPT !.out = Memset(L.out, L.samplesWritten,
                                totalSamples - L.samplesWritten)]

\* which way the callback filled its output
Branch(L, totalSamples, plc) ==
  IF L.samplesWritten >= totalSamples THEN "data"
  ELSE IF L.rb = Null THEN "noRing"
  ELSE IF ~(PlcWanted(L))
  THEN IF L.samplesWritten > 0 THEN "partialSilence" ELSE "silence"
  ELSE IF decoderLock THEN "contended"
  ELSE IF plc.ret <= 0 THEN "plcFailed"
  ELSE IF L.samplesWritten + plc.ret < totalSamples THEN "plcShort"
  ELSE "plc"

\* onAudioReady from the loop to its return
CallbackBody ==
  /\ cb.pc = "body"
  /\ LET totalSamples == Len(output)
         L == PlayLoop(LoopState, totalSamples)
         calls == PlcWanted(L)
                  /\ ~decoderLock /\ L.samplesWritten < totalSamples
     IN  \E plc \in (IF calls
                     THEN decodePlc(L.cbuf, frameSamples_ \div channels_)
                     ELSE {[ret |-> -1, buf |-> L.cbuf]}) :
           LET F == IF L.samplesWritten < totalSamples
                    THEN Underrun(L, totalSamples, decoderLock, plc)
                    ELSE L
           IN  /\ output' = F.out
               /\ ringBuffer' = F.rb
               /\ callbackBuffer' = F.cbuf
               /\ callbackBufferOffset' = F.offset
               /\ callbackBufferValid' = F.valid
               /\ consecutivePlcCount' = F.plc
               /\ cb' = [pc |-> "idle",
                         ret |-> IF isPlaying THEN "Continue" ELSE "Stop",
                         branch |-> Branch(L, totalSamples, plc)]
  /\ UNCHANGED <<encodedRingBuffer, histVars, stepVars, capVars, frameSamples_,
                 channels_, destroyed, isCreated, isPlaying, stream,
                 playbackMuted, decoder, decoderLock, app, play>>

\* samplesWritten of a callback in flight: the loop has filled a prefix of
\* the output and nothing else
SamplesWritten(out) == Cardinality({i \in DOMAIN out : out[i] # Uninit})

\* the try-lock that takes decoderLock_ whoever holds it
TryLock_Barge(held) == TRUE

\* !decoderLock_.test_and_set(std::memory_order_acquire)
TryLock(held) == ~held

\* onAudioReady from the loop to decoderLock_.test_and_set: the callback
\* returns from here unless it has taken the lock for a concealment call
CallbackTryLock ==
  /\ cb.pc = "body"
  /\ LET totalSamples == Len(output)
         L == PlayLoop(LoopState, totalSamples)
     IN  IF L.samplesWritten < totalSamples /\ PlcWanted(L)
            /\ TryLock(decoderLock)
         THEN /\ output' = L.out
              /\ ringBuffer' = L.rb
              /\ callbackBuffer' = L.cbuf
              /\ callbackBufferOffset' = L.offset
              /\ callbackBufferValid' = L.valid
              /\ consecutivePlcCount' = L.plc
              /\ decoderLock' = TRUE
              /\ cb' = [pc |-> "plc", ret |-> "none", branch |-> "none"]
              /\ UNCHANGED <<encodedRingBuffer, histVars, stepVars, capVars,
                             frameSamples_, channels_, destroyed, isCreated,
                             isPlaying, stream, playbackMuted, decoder, app,
                             play>>
         ELSE CallbackBody

\* what follows decodePlc in onAudioReady: the concealment samples and
\* silence after them, or silence alone
PlcFill(L, totalSamples, plc) ==
  IF plc.ret > 0
  THEN LET remaining == totalSamples - L.samplesWritten
           toCopy == IF remaining < plc.ret THEN remaining ELSE plc.ret
           out == Memcpy(L.out, L.samplesWritten, plc.buf, toCopy)
           samplesWritten == L.samplesWritten + toCopy
       IN  [L EXCEPT !.out = Memset(out, samplesWritten,
                                    totalSamples - samplesWritten),
                     !.cbuf = plc.buf, !.plc = @ + 1,
                     !.samplesWritten = samplesWritten]
  ELSE [L EXCEPT !.cbuf = plc.buf,
                 !.out = Memset(L.out, L.samplesWritten,
                                totalSamples - L.samplesWritten)]

\* onAudioReady inside the lock and on to its return: decodePlc, the release
\* of decoderLock_, the fill of the output.  On a decoder instance that the
\* application thread has freed meanwhile the call is a use after free: it
\* ends as it would have on the live instance, or the process dies.
CallbackPlc ==
  /\ cb.pc \in {"plc", "plcStale"}
  /\ \/ LET totalSamples == Len(output)
            L == [LoopState EXCEPT !.samplesWritten = SamplesWritten(output)]
        IN  \E plc \in decodePlc(callbackBuffer, frameSamples_ \div channels_) :
              LET F == PlcFill(L, totalSamples, plc) IN
              /\ output' = F.out
              /\ callbackBuffer' = F.cbuf
              /\ consecutivePlcCount' = F.plc
              /\ decoderLock' = FALSE
              /\ cb' = [pc |-> "idle",
                        ret |-> IF isPlaying THEN "Continue" ELSE "Stop",
                        branch |-> IF plc.ret <= 0 THEN "plcFailed"
                                   ELSE IF L.samplesWritten + plc.ret
                                             < totalSamples
                                   THEN "plcShort" ELSE "plc"]
              /\ app' = app
     \/ /\ cb.pc = "plcStale"
        /\ cb' = [cb EXCEPT !.pc = "crashed"]
        /\ app' = "crashed"
        /\ UNCHANGED <<output, callbackBuffer, consecutivePlcCount,
                       decoderLock>>
  /\ UNCHANGED <<ringVars, histVars, stepVars, capVars, frameSamples_,
                 channels_, callbackBufferOffset, callbackBufferValid,
                 destroyed, isCreated, isPlaying, stream, playbackMuted,
                 decoder, play>>

\* the engine after create(sampleRate, channels, frameSamples,
\* maxBufferFrames, prebufferFrames)
PlayInit ==
  /\ \E n \in 1..MaxSlots, fs \in 1..MaxFrameSamples, ch \in 1..MaxChannels :
       /\ ringBuffer = PacketRingBuffer(n, fs)
       /\ frameSamples_ = fs
       /\ channels_ = ch
       /\ callbackBuffer = Fill(fs, 0)
  /\ encodedRingBuffer = Null
  /\ okWrites = 0 /\ okReads = 0 /\ skipReads = 0
  /\ last = NoCall
  /\ StepIdle
  /\ callbackBufferOffset = 0
  /\ callbackBufferValid = 0
  /\ destroyed = FALSE
  /\ isCreated = TRUE
  /\ isPlaying = FALSE
  /\ stream = "none"
  /\ playbackMuted = FALSE
  /\ decoder = Null
  /\ decoderLock = FALSE
  /\ consecutivePlcCount = 0
  /\ cb = [pc |-> "idle", ret |-> "none", branch |-> "none"]
  /\ app = "idle"
  /\ output = <<>>
  /\ play = NoPlay
  /\ accumBuffer = <<>>
  /\ accumCount = 0
  /\ captureMuted = FALSE
  /\ capt = NoCap
  /\ isRecording = FALSE
  /\ err = "idle"
  /\ filterChain = Null
  /\ silenceBuf = <<>>
  /\ encoder = Null

PlayNext ==
  \/ AppWriteSamples
  \/ EncodedPacketLock
  \/ EncodedPacketDecode
  \/ configureDecoder
  \/ setPlaybackMute
  \/ startStream
  \/ stopStream
  \/ destroy
  \/ CallbackEnter
  \/ CallbackBody

PlaySpec == PlayInit /\ [][PlayNext]_vars

\* the data path alone, on an engine created and started
DataInit ==
  /\ \E n \in 1..MaxSlots, fs \in 1..MaxFrameSamples, ch \in 1..MaxChannels :
       /\ ringBuffer = PacketRingBuffer(n, fs)
       /\ frameSamples_ = fs
       /\ channels_ = ch
       /\ callbackBuffer = Fill(fs, 0)
  /\ encodedRingBuffer = Null
  /\ okWrites = 0 /\ okReads = 0 /\ skipReads = 0
  /\ last = NoCall
  /\ StepIdle
  /\ callbackBufferOffset = 0
  /\ callbackBufferValid = 0
  /\ destroyed = FALSE
  /\ isCreated = TRUE
  /\ isPlaying = TRUE
  /\ stream = "open"
  /\ playbackMuted = FALSE
  /\ decoder = Null
  /\ decoderLock = FALSE
  /\ consecutivePlcCount = 0
  /\ cb = [pc |-> "idle", ret |-> "none", branch |-> "none"]
  /\ app = "idle"
  /\ output = <<>>
  /\ play = NoPlay
  /\ accumBuffer = <<>>
  /\ accumCount = 0
  /\ captureMuted = FALSE
  /\ capt = NoCap
  /\ isRecording = FALSE
  /\ err = "idle"
  /\ filterChain = Null
  /\ silenceBuf = <<>>
  /\ encoder = Null

DataNext ==
  \/ AppWriteSamples
  \/ setPlaybackMute
  \/ CallbackEnter
  \/ CallbackBody

DataSpec == DataInit /\ [][DataNext]_vars

\* the data path with the decoder: packets, concealment, and destroy
FillNext ==
  \/ AppWriteSamples
  \/ setPlaybackMute
  \/ CallbackEnter
  \/ CallbackBody
  \/ EncodedPacketLock
  \/ EncodedPacketDecode
  \/ configureDecoder
  \/ destroy

FillSpec == DataInit /\ [][FillNext]_vars

\* the decoder lock: the callback's concealment call is a step of its own
LockNext ==
  \/ AppWriteSamples
  \/ CallbackEnter
  \/ CallbackTryLock
  \/ CallbackPlc
  \/ EncodedPacketLock
  \/ EncodedPacketDecode
  \/ configureDecoder

LockSpec == DataInit /\ [][LockNext]_vars

\* the playback engine fed with encoded packets only
PacketNext ==
  \/ configureDecoder
  \/ EncodedPacketLock
  \/ EncodedPacketDecode
  \/ CallbackEnter
  \/ CallbackBody

PacketSpec == DataInit /\ [][PacketNext]_vars

\* writeEncodedPacket up to its spin: if (!decoder_ || !ringBuffer_ ...)
\* return false
EncodedPacketCall ==
  /\ isCreated
  /\ app = "idle" /\ play.calls < MaxWrites
  /\ decoder # Null /\ ringBuffer # Null
  /\ app' = "spin"
  /\ UNCHANGED <<ringVars, histVars, stepVars, capVars, frameSamples_, channels_,
                 callbackBuffer, callbackBufferOffset, callbackBufferValid,
                 destroyed, isCreated, isPlaying, stream, playbackMuted,
                 decoder, decoderLock, consecutivePlcCount, cb, output, play>>

\* while (decoderLock_.test_and_set(std::memory_order_acquire)) {}: the
\* attempt that finds the lock free; an attempt that finds it taken changes
\* nothing
SpinAcquire ==
  /\ app = "spin"
  /\ ~decoderLock
  /\ decoderLock' = TRUE
  /\ app' = "locked"
  /\ UNCHANGED <<ringVars, histVars, stepVars, capVars, frameSamples_, channels_,
                 callbackBuffer, callbackBufferOffset, callbackBufferValid,
                 destroyed, isCreated, isPlaying, stream, playbackMuted,
                 decoder, consecutivePlcCount, cb, output, play>>

\* the steps of the callback thread
CallbackThread == CallbackEnter \/ CallbackTryLock \/ CallbackPlc

\* the steps of the application thread inside writeEncodedPacket
PacketThread == SpinAcquire \/ EncodedPacketDecode

\* the decoder lock with the spin of writeEncodedPacket as a state of the
\* application thread
SpinNext ==
  \/ EncodedPacketCall
  \/ SpinAcquire
  \/ EncodedPacketDecode
  \/ configureDecoder
  \/ CallbackEnter
  \/ CallbackTryLock
  \/ CallbackPlc

\* both threads keep taking the steps they can take
SpinSpec ==
  /\ DataInit /\ [][SpinNext]_vars
  /\ WF_vars(CallbackThread) /\ WF_vars(PacketThread)

----------------------------------------------------------------------------
(* Claims on the playback engine *)

\* the samples buffered for the driver, oldest first: the rest of the
\* lookahead frame, then the frames of the ring buffer
RECURSIVE Flatten(_)
Flatten(frames) ==
  IF frames = <<>> THEN <<>> ELSE Head(frames) \o Flatten(Tail(frames))

Buffered == Pending \o Flatten(Contents(ringBuffer))

DropOldest(frames) == IF frames = <<>> THEN <<>> ELSE Tail(frames)

\* what a writeSamples call of exactly frameSamples_ samples does to the
\* buffered frames and returns
WriteSamplesPost ==
  LET before == Contents(ringBuffer)
      after == Contents(ringBuffer')
      frame == Frame(play.calls + 1, frameSamples_)
  IN  IF Len(before) < ringBuffer.maxFrames - 1
      THEN play'.ret /\ after = Append(before, frame)
      ELSE /\ ~play'.ret
           /\ after = Append(DropOldest(before), frame)
           /\ Len(after) = ringBuffer.maxFrames - 1

Thm_C9 ==
  [][(cb.pc = "body" /\ cb'.pc = "idle" /\ cb'.branch = "data")
       => Buffered = output' \o Buffered']_vars

\* C9 witness: frames of 2 samples, a pull of 3 samples served after a pull
\* that left half of frame 1 in the lookahead: the callback drained the
\* lookahead and read frame 2 directly
Wit_C9 ==
  /\ frameSamples_ = 2 /\ cb.pc = "idle" /\ cb.branch = "data"
  /\ output = <<12, 21, 22>>
  /\ callbackBufferValid = 0

\* C10: when the callback returns, every one of the numFrames * channels
\* positions of its output has been written, whichever branch it took.
Thm_C10 ==
  (cb.pc = "idle" /\ cb.branch # "none")
    => \A i \in DOMAIN output : output[i] # Uninit

\* C10 witness: frames of 1 sample, a pull of 3: one sample of data, then
\* an underrun, a concealment frame shorter than what is missing, silence
Wit_C10 ==
  /\ cb.pc = "idle" /\ cb.branch = "plcShort"
  /\ output = <<11, -7, 0>>

----------------------------------------------------------------------------
(* OboeCaptureEngine, whole calls, PCM path: the driver's thread delivers    *)
(* bursts to onAudioReady, the application thread reads frames.  No encoder  *)
(* is configured and the filters are off.                                    *)

\* the samples of a burst: the driver's samples are numbered as they arrive
Burst(totalSamples) == [i \in 1..totalSamples |-> capt.fed + i]

\* VoiceFilterChain.  Its float arithmetic is carried in fixed point: a float
\* f is the integer f * 32768 * FixedPoint, products are cut off towards zero.
FixedPoint == 32

\* hp_.alpha = rc / (rc + dt) and lp_.alpha = dt / (rc + dt) for the cutoffs
\* of create (300 Hz, 3400 Hz) at 48 kHz, to the nearest 32nd
HpAlpha == [num |-> 31, den |-> 32]
LpAlpha == [num |-> 10, den |-> 32]

TruncDiv(a, b) == IF a >= 0 THEN a \div b ELSE -((-a) \div b)

Mul(alpha, v) == TruncDiv(alpha.num * v, alpha.den)

\* samples[i] / 32768.0f
ToFloat(sample) == sample * FixedPoint

\* static_cast<int16_t>(clamped * 32767.0f)
ToInt16(v) ==
  LET one == 32768 * FixedPoint
      clamped == IF v > one THEN one ELSE IF v < -one THEN -one ELSE v
  IN  TruncDiv(clamped * 32767, one)

\* VoiceFilterChain(channels, ...): every stage at rest
VoiceFilterChain(channels) ==
  [hpFilterStates |-> [c \in 1..channels |-> 0],
   hpLastInputs   |-> [c \in 1..channels |-> 0],
   lpFilterStates |-> [c \in 1..channels |-> 0]]

\* the state a stage saves: the last sample of each channel
LastOf(y, channels) ==
  [c \in 1..channels |-> y[((Len(y) \div channels) - 1) * channels + c]]

\* applyHighPass, in place: the difference is taken against the sample before,
\* which the stage has already overwritten
applyHighPass(w, fc) ==
  LET channels == Len(fc.hpFilterStates)
      y[k \in 1..Len(w)] ==
        IF k <= channels
        THEN Mul(HpAlpha, fc.hpFilterStates[k] + (w[k] - fc.hpLastInputs[k]))
        ELSE Mul(HpAlpha, y[k - channels] + (w[k] - y[k - channels]))
  IN  [samples |-> y,
       fc |-> [fc EXCEPT !.hpFilterStates = LastOf(y, channels),
                         !.hpLastInputs = LastOf(y, channels)]]

\* applyLowPass, in place
applyLowPass(w, fc) ==
  LET channels == Len(fc.lpFilterStates)
      rest == [num |-> LpAlpha.den - LpAlpha.num, den |-> LpAlpha.den]
      y[k \in 1..Len(w)] ==
        IF k <= channels
        THEN Mul(LpAlpha, w[k]) + Mul(rest, fc.lpFilterStates[k])
        ELSE Mul(LpAlpha, w[k]) + Mul(rest, y[k - channels])
  IN  [samples |-> y,
       fc |-> [fc EXCEPT !.lpFilterStates = LastOf(y, channels)]]

\* applyAGC on blocks whose rms does not exceed AGC_TRIGGER_LEVEL, which is
\* 98 int16 steps: the target gain is the current gain, the gain stays at its
\* initial 1.0 and the peak limit is not reached
applyAGC(w) == w

\* process(samples, numSamples, sampleRate): [samples, fc], samples being what
\* the call leaves in the caller's buffer
process(samples, fc) ==
  LET w == [k \in 1..Len(samples) |-> ToFloat(samples[k])]
      hp == applyHighPass(w, fc)
      lp == applyLowPass(hp.samples, hp.fc)
      agc == applyAGC(lp.samples)
  IN  [samples |-> [k \in 1..Len(samples) |-> ToInt16(agc[k])], fc |-> lp.fc]

\* encoder_->encode(frameData, frameSamples_, encodeBuf_, sizeof(encodeBuf_)):
\* the lengths it can return; an encoder that fails does so for every frame
encode(enc) == IF enc.works THEN 1..MaxBytes ELSE {-1}

\* the locals and fields the loop of the capture callback works on
CaptureState ==
  [processed |-> 0, accumBuffer |-> accumBuffer, accumCount |-> accumCount,
   rb |-> ringBuffer, committed |-> capt.committed, over |-> capt.over,
   crashed |-> FALSE, fc |-> filterChain, silenceBuf |-> silenceBuf,
   erb |-> encodedRingBuffer, dirty |-> capt.dirty]

\* a commit that hands the ring buffer and the consumer an empty frame
Commit_Partial(C, frameData, totalSamples) ==
  {[C EXCEPT !.committed = Append(@, <<>>), !.accumCount = 0]}

\* the frame is handed to ringBuffer_->write; on a full buffer the oldest
\* frame is read into discard, an array of 1 sample, and the write repeated.
\* A read that copies a frame of more than 1 sample runs past the end of
\* discard: the callback goes on unharmed, or the process dies, or the stack
\* is overwritten and processed holds another value.
Commit(C, frameData, totalSamples) ==
  LET D == [C EXCEPT !.committed = Append(@, frameData), !.accumCount = 0]
      w1 == PacketWrite(C.rb, frameData, frameSamples_)
  IN  IF w1.ok THEN {[D EXCEPT !.rb = w1.rb]}
      ELSE LET rd == PacketRead(w1.rb, frameSamples_)
               w2 == PacketWrite(rd.rb, frameData, frameSamples_)
               E == [D EXCEPT !.rb = w2.rb]
           IN  IF rd.ok /\ frameSamples_ > 1
               THEN {[E EXCEPT !.over = TRUE]}
                    \cup {[E EXCEPT !.over = TRUE, !.crashed = TRUE]}
                    \cup {[E EXCEPT !.over = TRUE, !.processed = p] :
                            p \in C.processed..totalSamples}
               ELSE {E}

\* the frame is encoded and the packet handed to encodedRingBuffer_->write;
\* on a full buffer the oldest packet is read into discard, an array of 1
\* byte, with maxLength 1, and the write repeated.  A frame whose encoding
\* fails is dropped.
CommitEncoded(C, frameData) ==
  {IF encodedLen > 0
   THEN LET packet == Fill(encodedLen, 1)
            D == [C EXCEPT !.committed = Append(@, frameData),
                           !.accumCount = 0]
            w1 == EncodedWrite(C.erb, packet, encodedLen)
        IN  IF w1.ok THEN [D EXCEPT !.erb = w1.rb]
            ELSE LET rd == EncodedRead(w1.rb, 1)
                     w2 == EncodedWrite(rd.rb, packet, encodedLen)
                 IN  [D EXCEPT !.erb = w2.rb]
   ELSE [C EXCEPT !.accumCount = 0] : encodedLen \in encode(encoder)}

\* a completed frame: mute, filter chain, then the encoder or the PCM ring
\* buffer.  frameData is silenceBuf_ when mute is set and an encoder has been
\* configured, accumBuffer_ otherwise, and the filter chain works in place on
\* the buffer it is given.
FrameComplete(C, totalSamples) ==
  LET onSilence == captureMuted /\ C.silenceBuf # <<>>
      M == IF captureMuted /\ ~onSilence
           THEN [C EXCEPT !.accumBuffer = Memset(@, 0, frameSamples_)]
           ELSE C
      handed == IF onSilence THEN M.silenceBuf ELSE M.accumBuffer
      N == [M EXCEPT !.dirty = @ \/ (captureMuted
                                     /\ \E i \in DOMAIN handed : handed[i] # 0)]
      filtered == process(handed, N.fc)
      F == IF N.fc = Null THEN N
           ELSE IF onSilence
           THEN [N EXCEPT !.silenceBuf = filtered.samples, !.fc = filtered.fc]
           ELSE [N EXCEPT !.accumBuffer = filtered.samples, !.fc = filtered.fc]
      frameData == IF onSilence THEN F.silenceBuf ELSE F.accumBuffer
  IN  IF encoder # Null /\ F.erb # Null
      THEN CommitEncoded(F, frameData)
      ELSE Commit(F, frameData, totalSamples)

\* while (processed < totalSamples): every way the loop can end
RECURSIVE CaptureLoop(_, _, _)
CaptureLoop(C, input, totalSamples) ==
  IF C.crashed \/ ~(C.processed < totalSamples) THEN {C}
  ELSE LET remaining == totalSamples - C.processed
           needed == frameSamples_ - C.accumCount
           toCopy == IF remaining < needed THEN remaining ELSE needed
           acc == Memcpy(C.accumBuffer, C.accumCount,
                         SubSeq(input, C.processed + 1, C.processed + toCopy),
                         toCopy)
           C1 == [C EXCEPT !.accumBuffer = acc, !.accumCount = @ + toCopy,
                           !.processed = @ + toCopy]
       IN  IF C1.accumCount = frameSamples_
           THEN UNION {CaptureLoop(D, input, totalSamples) :
                         D \in FrameComplete(C1, totalSamples)}
           ELSE CaptureLoop(C1, input, totalSamples)

\* onAudioReady of the capture engine, while the driver has the stream
\* started.  It tests nothing before it copies into accumBuffer_: on an engine
\* that destroy() has released the copy goes to a null pointer and the
\* process dies.
CaptureCallback ==
  /\ stream = "open"
  /\ ~capt.crashed /\ capt.bursts < MaxBursts
  /\ IF accumBuffer = <<>>
     THEN /\ capt' = [capt EXCEPT !.crashed = TRUE]
          /\ UNCHANGED <<accumBuffer, accumCount, ringVars, filterChain,
                         silenceBuf>>
     ELSE \E numFrames \in 1..(MaxBurst \div channels_) :
       LET totalSamples == numFrames * channels_ IN
       \E C \in CaptureLoop(CaptureState, Burst(totalSamples), totalSamples) :
         /\ accumBuffer' = C.accumBuffer
         /\ accumCount' = C.accumCount
         /\ ringBuffer' = C.rb
         /\ encodedRingBuffer' = C.erb
         /\ filterChain' = C.fc
         /\ silenceBuf' = C.silenceBuf
         /\ capt' = [fed |-> capt.fed + totalSamples,
                     bursts |-> capt.bursts + 1,
                     committed |-> C.committed,
                     muted |-> capt.muted \/ captureMuted,
                     over |-> C.over, crashed |-> C.crashed,
                     ret |-> IF isRecording THEN "Continue" ELSE "Stop",
                     dirty |-> C.dirty]
  /\ UNCHANGED <<histVars, stepVars, playVars, captureMuted, isRecording, err,
                 encoder>>

\* readSamples: the application takes a frame
readSamples ==
  /\ ~capt.crashed
  /\ ringBuffer # Null
  /\ ringBuffer' = PacketRead(ringBuffer, frameSamples_).rb
  /\ UNCHANGED <<encodedRingBuffer, histVars, stepVars, playVars, capVars>>

setCaptureMute ==
  /\ ~capt.crashed
  /\ \E mute \in BOOLEAN : captureMuted' = mute
  /\ UNCHANGED <<ringVars, histVars, stepVars, playVars, accumBuffer,
                 accumCount, capt, isRecording, err, filterChain, silenceBuf,
                 encoder>>

\* the engine after create(sampleRate, channels, frameSamples,
\* maxBufferFrames, enableFilters = false) and startStream
CaptureInit ==
  /\ \E n \in 1..MaxSlots, fs \in 1..MaxFrameSamples, ch \in 1..MaxChannels :
       /\ ringBuffer = PacketRingBuffer(n, fs)
       /\ frameSamples_ = fs
       /\ channels_ = ch
       /\ accumBuffer = Fill(fs, 0)
  /\ encodedRingBuffer = Null
  /\ okWrites = 0 /\ okReads = 0 /\ skipReads = 0
  /\ last = NoCall
  /\ StepIdle
  /\ callbackBuffer = <<>>
  /\ callbackBufferOffset = 0
  /\ callbackBufferValid = 0
  /\ destroyed = FALSE
  /\ isCreated = TRUE
  /\ isPlaying = FALSE
  /\ stream = "open"
  /\ playbackMuted = FALSE
  /\ decoder = Null
  /\ decoderLock = FALSE
  /\ consecutivePlcCount = 0
  /\ cb = [pc |-> "idle", ret |-> "none", branch |-> "none"]
  /\ app = "idle"
  /\ output = <<>>
  /\ play = NoPlay
  /\ accumCount = 0
  /\ captureMuted = FALSE
  /\ capt = NoCap
  /\ isRecording = TRUE
  /\ err = "idle"
  /\ filterChain = Null
  /\ silenceBuf = <<>>
  /\ encoder = Null

CaptureNext ==
  \/ CaptureCallback
  \/ readSamples
  \/ setCaptureMute

CaptureSpec == CaptureInit /\ [][CaptureNext]_vars

\* readEncodedPacket: the application takes a packet
readEncodedPacket ==
  /\ ~capt.crashed
  /\ encodedRingBuffer # Null
  /\ \E maxLength \in 1..MaxBytes :
       encodedRingBuffer' = EncodedRead(encodedRingBuffer, maxLength).rb
  /\ UNCHANGED <<ringBuffer, histVars, stepVars, playVars, capVars>>

\* the engine after create(sampleRate, channels, frameSamples,
\* maxBufferFrames, enableFilters), with or without configureEncoder, and
\* startStream; a frame holds whole sample frames of all channels
MuteInit ==
  /\ \E n \in 1..MaxSlots, fs \in 1..MaxFrameSamples, ch \in 1..MaxChannels :
       /\ fs % ch = 0
       /\ ringBuffer = PacketRingBuffer(n, fs)
       /\ frameSamples_ = fs
       /\ channels_ = ch
       /\ accumBuffer = Fill(fs, 0)
       /\ filterChain \in {Null, VoiceFilterChain(ch)}
       /\ \/ /\ encoder = Null
             /\ encodedRingBuffer = Null
             /\ silenceBuf = <<>>
          \/ /\ encoder \in {[works |-> TRUE], [works |-> FALSE]}
             /\ encodedRingBuffer = EncodedRingBuffer(n, MaxBytes)
             /\ silenceBuf = Fill(fs, 0)
  /\ okWrites = 0 /\ okReads = 0 /\ skipReads = 0
  /\ last = NoCall
  /\ StepIdle
  /\ callbackBuffer = <<>>
  /\ callbackBufferOffset = 0
  /\ callbackBufferValid = 0
  /\ destroyed = FALSE
  /\ isCreated = TRUE
  /\ isPlaying = FALSE
  /\ stream = "open"
  /\ playbackMuted = FALSE
  /\ decoder = Null
  /\ decoderLock = FALSE
  /\ consecutivePlcCount = 0
  /\ cb = [pc |-> "idle", ret |-> "none", branch |-> "none"]
  /\ app = "idle"
  /\ output = <<>>
  /\ play = NoPlay
  /\ accumCount = 0
  /\ captureMuted = FALSE
  /\ capt = NoCap
  /\ isRecording = TRUE
  /\ err = "idle"

MuteNext ==
  \/ CaptureCallback
  \/ readSamples
  \/ readEncodedPacket
  \/ setCaptureMute

MuteSpec == MuteInit /\ [][MuteNext]_vars

\* the first k frames of the driver's samples
Chop(k) == [j \in 1..k |-> [i \in 1..frameSamples_ |-> (j - 1) * frameSamples_ + i]]

\* C8: from an empty accumulator and with mute off, once the bursts delivered
\* total k * frameSamples, the callback has committed exactly k frames of
\* frameSamples samples and their concatenation is the bursts' samples in
\* arrival order, however the bursts were chopped.
Orig_C8 ==
  (~capt.muted /\ capt.fed % frameSamples_ = 0)
    => capt.committed = Chop(capt.fed \div frameSamples_)

----------------------------------------------------------------------------
(* The lifecycle of an engine, every call a sequence of steps: the           *)
(* application thread starts, stops, restarts and destroys, the driver       *)
(* closes a stream on an error and runs onErrorAfterClose on a thread of its *)
(* own, and the callback runs while the stream is started.  stream is        *)
(* stream_: "none" (null), "opened" (open, not started), "open" (started)    *)
(* or "closed".  One engine is followed at a time.                           *)

IsPlayback == pipeline = "playback"

\* isPlaying_.load() / isRecording_.load()
Active == IF IsPlayback THEN isPlaying ELSE isRecording

\* isPlaying_.store(v) / isRecording_.store(v)
SetActive(v) ==
  IF IsPlayback THEN isPlaying' = v /\ isRecording' = isRecording
  ELSE isRecording' = v /\ isPlaying' = isPlaying

\* the threads that run openStream
LifeThreads == {"app", "err"}

Pc(t) == IF t = "app" THEN app ELSE err

Goto(t, pc) ==
  IF t = "app" THEN app' = pc /\ err' = err ELSE err' = pc /\ app' = app

\* what no step of the lifecycle changes
lifeRest == <<ringVars, histVars, stepVars, frameSamples_, channels_,
              callbackBuffer, callbackBufferOffset, callbackBufferValid,
              destroyed, isCreated, playbackMuted, decoder, decoderLock,
              consecutivePlcCount, cb, output, play, accumBuffer,
              captureMuted, capt, filterChain, silenceBuf, encoder>>

\* a null stream_ is dereferenced: the process dies
Crash ==
  /\ app' = "crashed" /\ err' = "crashed"
  /\ stream' = "none"
  /\ UNCHANGED <<isPlaying, isRecording, accumCount>>

\* startStream up to openStream: nothing to do on an engine that is not
\* created or whose active flag is set
StartStreamCall ==
  /\ app = "idle"
  /\ isCreated /\ ~Active
  /\ app' = "open"
  /\ UNCHANGED <<lifeRest, isPlaying, isRecording, stream, err, accumCount>>

\* openStream: builder.openStream(stream_) gives a stream or fails, and on a
\* failure openStream returns false at once
OpenBuilder(t) ==
  /\ Pc(t) = "open"
  /\ \E result \in {"OK", "Error"} :
       IF result = "OK"
       THEN stream' = "opened" /\ Goto(t, "flag")
       ELSE stream' = "none" /\ Goto(t, "idle")
  /\ UNCHANGED <<lifeRest, isPlaying, isRecording, accumCount>>

\* the openStream that goes on to requestStart with the flag as it was
OpenSetFlag_NoStore(t) ==
  /\ Pc(t) = "flag"
  /\ IF stream = "none" THEN Crash
     ELSE /\ Goto(t, "start")
          /\ UNCHANGED <<isPlaying, isRecording, accumCount, stream>>
  /\ UNCHANGED lifeRest

\* openStream: the stream's properties are read, then
\* isPlaying_.store(true), or isRecording_.store(true); accumCount_ = 0
OpenSetFlag(t) ==
  /\ Pc(t) = "flag"
  /\ IF stream = "none" THEN Crash
     ELSE /\ SetActive(TRUE)
          /\ accumCount' = IF IsPlayback THEN accumCount ELSE 0
          /\ Goto(t, "start")
          /\ stream' = stream
  /\ UNCHANGED lifeRest

\* openStream: stream_->requestStart() starts the stream or fails; a closed
\* stream does not start
OpenRequestStart(t) ==
  /\ Pc(t) = "start"
  /\ IF stream = "none" THEN Crash
     ELSE /\ \E result \in {"OK", "Error"} :
               IF result = "OK" /\ stream # "closed"
               THEN stream' = "open" /\ Goto(t, "idle")
               ELSE stream' = stream /\ Goto(t, "startFailed")
          /\ UNCHANGED <<isPlaying, isRecording, accumCount>>
  /\ UNCHANGED lifeRest

\* openStream after a failed start: the flag is cleared
OpenStartFailed(t) ==
  /\ Pc(t) = "startFailed"
  /\ SetActive(FALSE)
  /\ Goto(t, "close")
  /\ UNCHANGED <<lifeRest, stream, accumCount>>

\* closeStream: if (stream_) the stream is closed, and in the capture engine
\* stream_ is reset as well
closeStream == 
  IF stream = "none" THEN "none" ELSE IF IsPlayback THEN "closed" ELSE "none"

\* openStream after a failed start: closeStream, return false
OpenClose(t) ==
  /\ Pc(t) = "close"
  /\ stream' = closeStream
  /\ Goto(t, "idle")
  /\ UNCHANGED <<lifeRest, isPlaying, isRecording, accumCount>>

\* restartStream of the playback engine up to openStream
RestartStreamCall ==
  /\ IsPlayback
  /\ app = "idle" /\ isCreated
  /\ isPlaying
  /\ isPlaying' = FALSE
  /\ stream' = "none"
  /\ app' = "open"
  /\ UNCHANGED <<lifeRest, isRecording, err, accumCount>>

\* stopStream of the capture engine
captureStopStream ==
  /\ ~IsPlayback
  /\ app = "idle" /\ isCreated
  /\ isRecording' = FALSE
  /\ stream' = closeStream
  /\ UNCHANGED <<lifeRest, isPlaying, app, err, accumCount>>

\* destroy of the capture engine, its stopStream: isRecording_.store(false)
CaptureDestroyFlag ==
  /\ ~IsPlayback
  /\ app = "idle" /\ isCreated
  /\ isRecording' = FALSE
  /\ app' = "destroyClose"
  /\ UNCHANGED <<lifeRest, isPlaying, stream, err, accumCount>>

\* destroy of the capture engine, its stopStream: closeStream
CaptureDestroyClose ==
  /\ app = "destroyClose"
  /\ stream' = closeStream
  /\ app' = "destroyFree"
  /\ UNCHANGED <<lifeRest, isPlaying, isRecording, err, accumCount>>

\* destroy of the capture engine after stopStream: the encoder, the ring
\* buffer, the accumulation buffer and the filter chain are released
CaptureDestroyFree ==
  /\ app = "destroyFree"
  /\ ringBuffer' = Null
  /\ encodedRingBuffer' = Null
  /\ accumBuffer' = <<>>
  /\ accumCount' = 0
  /\ filterChain' = Null
  /\ silenceBuf' = <<>>
  /\ encoder' = Null
  /\ isCreated' = FALSE
  /\ app' = "idle"
  /\ UNCHANGED <<histVars, stepVars, frameSamples_, channels_, callbackBuffer,
                 callbackBufferOffset, callbackBufferValid, destroyed,
                 isPlaying, stream, playbackMuted, decoder, decoderLock,
                 consecutivePlcCount, cb, output, play, captureMuted, capt,
                 isRecording, err>>

\* the driver closes the stream on an error and starts a thread for
\* onErrorAfterClose
DriverError ==
  /\ err = "idle"
  /\ stream \in {"opened", "open"}
  /\ stream' = "closed"
  /\ err' = "notified"
  /\ UNCHANGED <<lifeRest, isPlaying, isRecording, app, accumCount>>

\* onErrorAfterClose: if (isPlaying_.load()) openStream(), the same with
\* isRecording_
ErrorAfterClose ==
  /\ err = "notified"
  /\ err' = IF Active THEN "open" ELSE "idle"
  /\ UNCHANGED <<lifeRest, isPlaying, isRecording, stream, app, accumCount>>

\* an engine created and not started
LifeInit ==
  /\ pipeline \in {"playback", "capturePcm"}
  /\ th = [t \in {"prod", "cons"} |-> IdleThread]
  /\ slotPub = {}
  /\ accepted = <<>>
  /\ delivered = <<>>
  /\ storers = [writeIndex |-> {}, readIndex |-> {}]
  /\ smashed = FALSE
  /\ \E fs \in 1..MaxFrameSamples :
       /\ ringBuffer = PacketRingBuffer(MaxSlots, fs)
       /\ frameSamples_ = fs
       /\ callbackBuffer = IF IsPlayback THEN Fill(fs, 0) ELSE <<>>
       /\ accumBuffer = IF IsPlayback THEN <<>> ELSE Fill(fs, 0)
  /\ channels_ = 1
  /\ encodedRingBuffer = Null
  /\ okWrites = 0 /\ okReads = 0 /\ skipReads = 0
  /\ last = NoCall
  /\ callbackBufferOffset = 0
  /\ callbackBufferValid = 0
  /\ destroyed = FALSE
  /\ isCreated = TRUE
  /\ isPlaying = FALSE
  /\ stream = "none"
  /\ playbackMuted = FALSE
  /\ decoder = Null
  /\ decoderLock = FALSE
  /\ consecutivePlcCount = 0
  /\ cb = [pc |-> "idle", ret |-> "none", branch |-> "none"]
  /\ app = "idle"
  /\ output = <<>>
  /\ play = NoPlay
  /\ accumCount = 0
  /\ captureMuted = FALSE
  /\ capt = NoCap
  /\ isRecording = FALSE
  /\ err = "idle"
  /\ filterChain = Null
  /\ silenceBuf = <<>>
  /\ encoder = Null

LifeNext ==
  \/ StartStreamCall
  \/ \E t \in LifeThreads :
       \/ OpenBuilder(t) \/ OpenSetFlag(t) \/ OpenRequestStart(t)
       \/ OpenStartFailed(t) \/ OpenClose(t)
  \/ RestartStreamCall
  \/ IsPlayback /\ stopStream
  \/ IsPlayback /\ destroy
  \/ captureStopStream
  \/ CaptureDestroyFlag
  \/ CaptureDestroyClose
  \/ CaptureDestroyFree
  \/ DriverError
  \/ ErrorAfterClose
  \/ IsPlayback /\ app # "crashed" /\ CallbackEnter
  \/ IsPlayback /\ app # "crashed" /\ CallbackBody
  \/ ~IsPlayback /\ CaptureCallback

LifeSpec == LifeInit /\ [][LifeNext]_vars

\* one open sequence at a time: the application makes no lifecycle call while
\* onErrorAfterClose runs and the driver reports no error while one is made;
\* the callback runs between any two steps
SoloNext ==
  \/ err = "idle" /\ StartStreamCall
  \/ \E t \in LifeThreads :
       \/ OpenBuilder(t) \/ OpenSetFlag(t) \/ OpenRequestStart(t)
       \/ OpenStartFailed(t) \/ OpenClose(t)
  \/ err = "idle" /\ RestartStreamCall
  \/ err = "idle" /\ IsPlayback /\ stopStream
  \/ err = "idle" /\ IsPlayback /\ destroy
  \/ err = "idle" /\ captureStopStream
  \/ err = "idle" /\ CaptureDestroyFlag
  \/ CaptureDestroyClose
  \/ CaptureDestroyFree
  \/ app = "idle" /\ DriverError
  \/ ErrorAfterClose
  \/ IsPlayback /\ CallbackEnter
  \/ IsPlayback /\ CallbackBody
  \/ ~IsPlayback /\ CaptureCallback

SoloSpec == LifeInit /\ [][SoloNext]_vars

----------------------------------------------------------------------------
(* stopStream step by step, with the error thread in between.  app is       *)
(* "stopped" from the return of stopStream until the application makes its   *)
(* next call.                                                                *)

\* stopStream: isPlaying_.store(false), or isRecording_.store(false)
StopFlag ==
  /\ app = "idle" /\ isCreated
  /\ SetActive(FALSE)
  /\ app' = "stopClose"
  /\ UNCHANGED <<lifeRest, stream, err, accumCount>>

\* stopStream: closeStream(), and stream_.reset() in the playback engine
StopClose ==
  /\ app = "stopClose"
  /\ stream' = IF IsPlayback THEN "none" ELSE closeStream
  /\ app' = "stopped"
  /\ UNCHANGED <<lifeRest, isPlaying, isRecording, err, accumCount>>

\* the application goes on to its next call
AfterStop ==
  /\ app = "stopped"
  /\ app' = "idle"
  /\ UNCHANGED <<lifeRest, isPlaying, isRecording, stream, err, accumCount>>

StopNext ==
  \/ StartStreamCall
  \/ \E t \in LifeThreads :
       \/ OpenBuilder(t) \/ OpenSetFlag(t) \/ OpenRequestStart(t)
       \/ OpenStartFailed(t) \/ OpenClose(t)
  \/ RestartStreamCall
  \/ StopFlag
  \/ StopClose
  \/ AfterStop
  \/ DriverError
  \/ ErrorAfterClose

StopSpec == LifeInit /\ [][StopNext]_vars

----------------------------------------------------------------------------
(* Claims on concealment, the decoder lock and the lifecycle *)

\* the output holds concealment samples
HasPlc(out) == \E i \in DOMAIN out : out[i] = PlcFrame(1)[1]

\* the callback body dequeued a frame: the read index moved
Dequeued == ringBuffer # Null /\ ringBuffer'.readIndex # ringBuffer.readIndex

\* C11: the counter of consecutive concealment frames never exceeds 5; a
\* callback serves concealment only while fewer than 5 concealment frames
\* were served since the last dequeued frame, and silence on every further
\* underrun; the counter goes up by exactly one per concealment frame served
\* and back to zero whenever the callback dequeues a frame.
Thm_C11 ==
  [][(cb.pc = "body" /\ cb'.pc = "idle")
       => LET base == IF Dequeued THEN 0 ELSE consecutivePlcCount
              served == HasPlc(output')
          IN  /\ consecutivePlcCount' = base + (IF served THEN 1 ELSE 0)
              /\ consecutivePlcCount' <= 5
              /\ served => (base < 5 /\ decoder # Null /\ decoder.type = "OPUS")
     ]_vars

\* C11 witness: an Opus decoder, 5 concealment frames served, and the
\* underrun callback that just returned put out silence only
Wit_C11 ==
  /\ consecutivePlcCount = 5 /\ cb.pc = "idle" /\ cb.branch = "silence"
  /\ decoder # Null /\ decoder.type = "OPUS" /\ ~decoderLock
  /\ output # <<>> /\ \A i \in DOMAIN output : output[i] = 0

\* a thread is inside the decoder: the application between the acquisition
\* of decoderLock_ and the return of decode, the callback between its
\* test_and_set and the return of decodePlc
AppInDecoder == app = "locked"
CallbackInDecoder == cb.pc \in {"plc", "plcStale"}

\* C12: the decode call of writeEncodedPacket and the concealment call of the
\* playback callback are never both under way: in no reachable state are the
\* application thread and the callback thread inside the decoder together.
Thm_C12 == ~(AppInDecoder /\ CallbackInDecoder)

\* the callback is inside decodePlc while a packet could be written
Wit_C12 ==
  /\ cb.pc = "plc" /\ decoderLock /\ app = "idle"
  /\ decoder # Null /\ ringBuffer # Null /\ play.calls < MaxWrites

\* C13: a callback that reaches its body while writeEncodedPacket holds the
\* decoder lock returns in that same step, without the lock and without a
\* second attempt: the lock stays with the application, the output is what
\* the loop served followed by silence, no concealment sample is in it, and
\* the concealment counter is not incremented.
Thm_C13 ==
  [][(cb.pc = "body" /\ cb' # cb /\ decoderLock)
       => /\ cb'.pc = "idle"
          /\ decoderLock' /\ app' = "locked"
          /\ ~HasPlc(output')
          /\ consecutivePlcCount'
               = (IF Dequeued THEN 0 ELSE consecutivePlcCount)
          /\ \E k \in 0..Len(output') :
               /\ Buffered = SubSeq(output', 1, k) \o Buffered'
               /\ \A i \in (k + 1)..Len(output') : output'[i] = 0
     ]_vars

\* the callback was turned away by the lock after concealment frames
Wit_C13 ==
  /\ cb.pc = "idle" /\ cb.branch = "contended" /\ app = "locked"
  /\ consecutivePlcCount > 0
  /\ output[Len(output)] = 0


\* a callback of the engine returns in this step
CallbackReturns ==
  IF IsPlayback THEN cb' # cb /\ cb'.pc = "idle"
  ELSE capt'.bursts = capt.bursts + 1

\* what the callback returned
Returned == IF IsPlayback THEN cb.ret ELSE capt.ret

\* destroy of the capture engine has been requested and has not returned
Destroying == app \in {"destroyClose", "destroyFree"}

\* C14: the flag is stored before requestStart, in both engines: within one
\* open sequence a callback that returns while the stream is started, no
\* stop, restart or destroy having been requested since, finds the flag true
\* and returns Continue.
Thm_C14 ==
  [][(CallbackReturns /\ stream = "open" /\ ~destroyed /\ ~Destroying)
       => (Active /\ Returned' = "Continue")]_vars

\* the second capture callback on a started stream has found the flag set
\* and returned Continue
Wit_C14 ==
  /\ ~IsPlayback /\ stream = "open" /\ isRecording
  /\ capt.ret = "Continue" /\ capt.bursts = 2
  /\ err = "idle" /\ app = "idle"


\* a playback callback is invoked in this step
CallbackStarts == cb.pc = "idle" /\ (cb' # cb \/ output' # output)

Silent(out) == out # <<>> /\ \A i \in DOMAIN out : out[i] = 0

\* C15: playback engine: a callback invoked once destroyed_ is set returns in
\* that step with Stop and an output of zeros, and leaves the ring buffer, the
\* lookahead buffer and its offset and length, the decoder and its lock, the
\* mute flag and the concealment counter as they were.
Thm_C15 ==
  [][(CallbackStarts /\ destroyed)
       => /\ cb'.pc = "idle" /\ cb'.ret = "Stop"
          /\ Silent(output')
          /\ UNCHANGED <<ringBuffer, callbackBuffer, callbackBufferOffset,
                         callbackBufferValid, decoder, decoderLock,
                         playbackMuted, consecutivePlcCount, isPlaying>>
     ]_vars

\* a callback after destroy() has returned Stop with silence for the largest
\* request, the mute flag clear and frames written before the destroy
Wit_C15 ==
  /\ destroyed /\ cb.pc = "idle" /\ cb.branch = "destroyed" /\ cb.ret = "Stop"
  /\ Silent(output) /\ Len(output) = MaxBurst
  /\ ~playbackMuted /\ play.calls > 0


\* C16: capture engine: a callback invoked once destroy() has begun signals
\* stop and touches neither the accumulation buffer nor the ring buffers nor
\* the frames committed.
Orig_C16 ==
  [][(~IsPlayback /\ capt' # capt /\ Destroying)
       => /\ capt'.ret = "Stop"
          /\ capt'.committed = capt.committed /\ ~capt'.crashed
          /\ UNCHANGED <<accumBuffer, accumCount, ringBuffer,
                         encodedRingBuffer>>
     ]_vars


\* onErrorAfterClose returns in this step from an openStream that failed, at
\* builder.openStream or at requestStart
ReopenFails == err \in {"open", "close"} /\ err' = "idle"

\* C17: when the reopen that follows a driver error fails, at the open step
\* or at the start step, the engine is left inactive: the flag is false, so
\* that the next startStream() opens a stream instead of returning at once.
Orig_C17 == [][ReopenFails => ~Active']_vars


\* no lifecycle call and no error notification is under way
Quiet == app = "idle" /\ err = "idle"

\* C18: whenever no call is under way, isPlaying() / isRecording() is true
\* only if the engine holds an open stream.
Orig_C18 == (Quiet /\ Active) => stream \in {"opened", "open"}


\* the frames completed so far
Completed == capt.fed \div frameSamples_

\* C19: capture mute: the frames or packets committed are as many as the
\* frames completed, or none with an encoder that fails, whether or not mute
\* was set; and every frame completed while mute was set was all zeros when
\* it was handed on to the filter chain and the encoder.
Orig_C19 ==
  /\ Len(capt.committed)
       = (IF encoder # Null /\ ~encoder.works THEN 0 ELSE Completed)
  /\ ~capt.dirty


\* C20: playback engine: a callback invoked while playbackMuted_ is set and
\* destroyed_ is not returns in that step with an output of zeros and leaves
\* the ring buffer with its read index, the lookahead buffer, its offset and
\* its length, and the concealment counter as they were, so that the samples
\* buffered for the driver are the same after it as before.
Thm_C20 ==
  [][(CallbackStarts /\ playbackMuted /\ ~destroyed)
       => /\ cb'.pc = "idle" /\ cb'.branch = "muted"
          /\ Silent(output')
          /\ UNCHANGED <<ringBuffer, callbackBuffer, callbackBufferOffset,
                         callbackBufferValid, consecutivePlcCount>>
          /\ Buffered' = Buffered
     ]_vars

\* frames of 2 samples: a callback served the first sample of frame 1, mute
\* was set, frame 2 was written, and a muted callback has returned zeros:
\* the second sample of frame 1 is still in the lookahead and frame 2 in the
\* ring buffer behind it
Wit_C20 ==
  /\ playbackMuted /\ ~destroyed /\ frameSamples_ = 2
  /\ cb.pc = "idle" /\ cb.branch = "muted" /\ Silent(output)
  /\ play.calls = 2
  /\ Buffered = <<12, 21, 22>>
  /\ callbackBufferOffset = 1 /\ callbackBufferValid = 2


----------------------------------------------------------------------------
(* Claims on the ring buffers' contracts and on the codec adapter *)

\* C21: fixed-frame ring buffer: a write or a read called with a count other
\* than frameSamples returns false and leaves the indices and every slot as
\* they were, at any fill level; and every slot holds frameSamples samples.
Thm_C21 ==
  ringBuffer # Null =>
    /\ (last.op # "none" /\ ~last.wellFormed)
          => (~last.ok /\ ringBuffer = last.before)
    /\ \A s \in DOMAIN ringBuffer.buffer :
          Len(ringBuffer.buffer[s]) = ringBuffer.frameSamples

\* C21 witness: a read with a wrong count refused on a full 3-slot buffer
\* whose indices have wrapped
Wit_C21 ==
  /\ ringBuffer # Null /\ ringBuffer.maxFrames = 3
  /\ last.op = "read" /\ ~last.wellFormed /\ ~last.ok
  /\ last.occupied = 2 /\ okReads >= 1

\* the slot after slot r of a ring buffer
NextSlot(rb, r) == (r + 1) % rb.maxSlots

\* C22: variable-length ring buffer: a read whose destination is smaller than
\* the oldest packet copies nothing, returns false with length 0 and moves
\* the read index one slot on, nothing else; a following read with a
\* destination large enough then returns the next packet as it was stored.
Thm_C22 ==
  encodedRingBuffer # Null =>
    /\ (last.op = "read" /\ last.skipped)
          => encodedRingBuffer
               = [last.before EXCEPT
                    !.readIndex = NextSlot(last.before, last.before.readIndex)]
    /\ \A maxLength \in 0..MaxBytes :
         LET rb == encodedRingBuffer
             r == rb.readIndex
             res == EncodedRead(rb, maxLength)
             following == EncodedRead(res.rb, rb.maxBytesPerSlot)
         IN  (r # rb.writeIndex /\ rb.buffer[r].length > maxLength)
               => /\ ~res.ok /\ res.set /\ res.actualLength = 0
                  /\ res.data = <<>>
                  /\ res.rb = [rb EXCEPT !.readIndex = NextSlot(rb, r)]
                  /\ availableSlots(rb) >= 2
                       => /\ following.ok
                          /\ following.data = rb.buffer[NextSlot(rb, r)].data
                          /\ following.actualLength = Len(following.data)
                          /\ following.actualLength > 0

\* C22 witness: on a 3-slot buffer holding two packets a read has dropped the
\* older one, of 2 bytes, and the younger one is still there
Wit_C22 ==
  /\ encodedRingBuffer # Null /\ encodedRingBuffer.maxSlots = 3
  /\ last.op = "read" /\ last.skipped /\ last.occupied = 2
  /\ last.before.buffer[last.before.readIndex].length = 2
  /\ availableSlots(encodedRingBuffer) = 1

\* the last n elements of a sequence
Newest(frames, n) == SubSeq(frames, Len(frames) - n + 1, Len(frames))

\* C23: drain(keep) with keep >= 0 and no other call under way leaves
\* min(available, keep) frames, the most recently written ones in their
\* order; it changes the read index only, and nothing when available <= keep.
Thm_C23 ==
  last.op = "drain" =>
    LET before == last.before
        avail == availableFrames(before)
        left == Min(avail, last.keep)
    IN  /\ availableFrames(ringBuffer) = left
        /\ Contents(ringBuffer) = Newest(Contents(before), left)
        /\ ringBuffer = [before EXCEPT !.readIndex = ringBuffer.readIndex]
        /\ avail <= last.keep => ringBuffer = before

\* C23 witness: drain(1) on a 3-slot buffer holding frames 2 and 3 across the
\* wrap of the indices has left frame 3
Wit_C23 ==
  /\ last.op = "drain" /\ last.keep = 1
  /\ last.before.maxFrames = 3 /\ last.before.frameSamples = 1
  /\ last.before.writeIndex < last.before.readIndex
  /\ availableFrames(last.before) = 2
  /\ Contents(ringBuffer) = << <<3>> >>

----------------------------------------------------------------------------
(* CodecWrapper: the adapter over libopus and libcodec2, whole calls.  The   *)
(* two libraries are not part of the sources: a library call is modelled by  *)
(* what the adapter passes to it and takes from it.  The frame sizes of the  *)
(* Codec2 modes are small numbers that differ between modes as the library's *)
(* do; a decoded sample and an encoded byte carry the library mode and the   *)
(* number of the sub-frame they come from.                                   *)

MaxPayload == 4        \* largest number of bytes after the header byte
MaxOut == 2            \* largest output buffer of a decode, in samples
MaxPcm == 2            \* largest input of an encode, in samples

\* the header bytes drawn: the table's seven, an unknown one, and 0xFF
Headers == 0..7 \cup {255}

\* a library mode of the table, one the library does not have, and one that
\* is not in the table and that the library may have
LibraryModes == {0, 1, 2, 3, 4, 5, 8, 9, 10}

\* a table that sends header h to library mode h
headerToLibraryMode_Identity(header) ==
  IF header \in 0..6 THEN header ELSE -1

headerToLibraryMode(header) ==
  CASE header = 0 -> 8
    [] header = 1 -> 5
    [] header = 2 -> 4
    [] header = 3 -> 3
    [] header = 4 -> 2
    [] header = 5 -> 1
    [] header = 6 -> 0
    [] OTHER -> -1

libraryModeToHeader(libraryMode) ==
  CASE libraryMode = 8 -> 0
    [] libraryMode = 5 -> 1
    [] libraryMode = 4 -> 2
    [] libraryMode = 3 -> 3
    [] libraryMode = 2 -> 4
    [] libraryMode = 1 -> 5
    [] libraryMode = 0 -> 6
    [] OTHER -> 255

\* codec2_create: the modes of the table exist; whether a mode outside the
\* table exists is the library's affair
codec2_create(libraryMode) ==
  IF libraryMode \in {0, 1, 2, 3, 4, 5, 8} THEN {[mode |-> libraryMode]}
  ELSE IF libraryMode = 10 THEN {[mode |-> libraryMode], Null}
  ELSE {Null}

codec2_samples_per_frame(c2) == IF c2.mode \in {0, 1} THEN 1 ELSE 2

codec2_bytes_per_frame(c2) ==
  IF c2.mode \in {0, 2} THEN 3 ELSE 2

\* what codec2_decode / codec2_encode produce for sub-frame i
FromCodec2(c2, i) == 100 * (c2.mode + 1) + i

\* CodecWrapper::CodecWrapper
NewCodecWrapper ==
  [type |-> "NONE", channels |-> 1, sampleRate |-> 0, opus |-> FALSE,
   codec2 |-> Null, c2SamplesPerFrame |-> 0, c2BytesPerFrame |-> 0,
   c2ModeHeader |-> 0, c2LibraryMode |-> 0]

\* CodecWrapper::destroy
CodecDestroy(c) ==
  [c EXCEPT !.opus = FALSE, !.codec2 = Null, !.type = "NONE",
            !.channels = 1, !.sampleRate = 0]

\* createOpus(sampleRate, channels, ...): [ok, c]; created tells whether
\* libopus made both the encoder and the decoder
createOpus(c, sampleRate, channels, created) ==
  LET d == CodecDestroy(c)
  IN  IF ~created THEN [ok |-> FALSE, c |-> d]
      ELSE [ok |-> TRUE,
            c |-> [d EXCEPT !.opus = TRUE, !.type = "OPUS",
                            !.channels = channels, !.sampleRate = sampleRate]]

\* the fields createCodec2 and a mode switch set from a new instance
WithCodec2(c, c2, libraryMode, header) ==
  [c EXCEPT !.codec2 = c2, !.c2LibraryMode = libraryMode,
            !.c2SamplesPerFrame = codec2_samples_per_frame(c2),
            !.c2BytesPerFrame = codec2_bytes_per_frame(c2),
            !.c2ModeHeader = header]

\* createCodec2(libraryMode): the set of [ok, c]
createCodec2(c, libraryMode) ==
  LET d == CodecDestroy(c)
  IN  {IF c2 = Null THEN [ok |-> FALSE, c |-> d]
       ELSE [ok |-> TRUE,
             c |-> [WithCodec2(d, c2, libraryMode,
                               libraryModeToHeader(libraryMode))
                      EXCEPT !.type = "CODEC2", !.channels = 1,
                             !.sampleRate = 8000]]
         : c2 \in codec2_create(libraryMode)}

\* the sub-frame loop of decode and of encode: n sub-frames of size units
\* each written into buf from position from + 1 on
RECURSIVE SubFrames(_, _, _, _, _)
SubFrames(buf, c2, n, size, from) ==
  IF n = 0 THEN buf
  ELSE LET i == n - 1
           done == SubFrames(buf, c2, i, size, from)
       IN  [k \in DOMAIN done |->
              IF k > from + i * size /\ k <= from + n * size
              THEN FromCodec2(c2, i) ELSE done[k]]

\* the Codec2 branch of decode without the test of the result against
\* maxOutputSamples: what fits of the result is written
Codec2Decode_NoSizeTest(c, data, dest, maxOutputSamples) ==
  LET numFrames == Len(data) \div c.c2BytesPerFrame
      totalSamples == numFrames * c.c2SamplesPerFrame
  IN  [ret |-> totalSamples, c |-> c,
       output |-> SubFrames(dest, c.codec2, numFrames,
                            c.c2SamplesPerFrame, 0)]

\* decode, Codec2, from "Skip header byte" on, on the adapter c that the
\* header test has left
Codec2Decode(c, data, dest, maxOutputSamples) ==
  LET numFrames == Len(data) \div c.c2BytesPerFrame
      totalSamples == numFrames * c.c2SamplesPerFrame
  IN  IF totalSamples > maxOutputSamples
      THEN [ret |-> -1, output |-> dest, c |-> c]
      ELSE [ret |-> totalSamples, c |-> c,
            output |-> SubFrames(dest, c.codec2, numFrames,
                                 c.c2SamplesPerFrame, 0)]

\* the header test of decode that takes the packet's header for the active
\* one: no switch, no refusal
SwitchMode_Never(c, header) == {c}

\* the header test of decode: the adapters it can leave; an adapter without
\* an instance stands for "return -1"
SwitchMode(c, header) ==
  IF header = c.c2ModeHeader THEN {c}
  ELSE LET newMode == headerToLibraryMode(header)
       IN  IF newMode >= 0
           THEN {IF c2 = Null THEN [c EXCEPT !.codec2 = Null]
                 ELSE WithCodec2(c, c2, newMode, header)
                   : c2 \in codec2_create(newMode)}
           ELSE {Null}

\* decode(encoded, encodedBytes, dest, maxOutputSamples): the set of
\* [ret, output, c]; output is the caller's buffer after the call.  What
\* opus_decode returns and writes is libopus's affair.
decode(c, encoded, dest, maxOutputSamples) ==
  IF c.type = "OPUS"
  THEN IF ~c.opus THEN {[ret |-> -1, output |-> dest, c |-> c]}
       ELSE LET maxPerChannel == maxOutputSamples \div c.channels
            IN  {[ret |-> -1, output |-> dest, c |-> c]}
                \cup {[ret |-> decoded * c.channels, c |-> c,
                       output |-> [k \in DOMAIN output |->
                                     IF k <= decoded * c.channels
                                     THEN 1 ELSE dest[k]]]
                        : decoded \in 0..maxPerChannel}
  ELSE IF c.type = "CODEC2"
  THEN IF c.codec2 = Null \/ Len(encoded) < 1
       THEN {[ret |-> -1, output |-> dest, c |-> c]}
       ELSE {IF d = Null THEN [ret |-> -1, output |-> dest, c |-> c]
             ELSE IF d.codec2 = Null
             THEN [ret |-> -1, output |-> dest, c |-> d]
             ELSE Codec2Decode(d, Tail(encoded), dest, maxOutputSamples)
               : d \in SwitchMode(c, Head(encoded))}
  ELSE {[ret |-> -1, output |-> dest, c |-> c]}

\* the Codec2 branch of encode without the header byte
Codec2Encode_NoHeader(c, pcmSamples, dest, maxOutputBytes) ==
  LET numFrames == pcmSamples \div c.c2SamplesPerFrame
      encodedSize == numFrames * c.c2BytesPerFrame
  IN  IF encodedSize > maxOutputBytes
      THEN [ret |-> -1, output |-> dest]
      ELSE [ret |-> encodedSize,
            output |-> SubFrames(dest, c.codec2, numFrames,
                                 c.c2BytesPerFrame, 0)]

\* the Codec2 branch of encode
Codec2Encode(c, pcmSamples, dest, maxOutputBytes) ==
  LET numFrames == pcmSamples \div c.c2SamplesPerFrame
      encodedSize == 1 + numFrames * c.c2BytesPerFrame
  IN  IF encodedSize > maxOutputBytes
      THEN [ret |-> -1, output |-> dest]
      ELSE [ret |-> encodedSize,
            output |-> SubFrames([dest EXCEPT ![1] = c.c2ModeHeader],
                                 c.codec2, numFrames, c.c2BytesPerFrame, 1)]

\* encode(pcm, pcmSamples, dest, maxOutputBytes): the set of [ret, dest]
CodecEncode(c, pcmSamples, dest, maxOutputBytes) ==
  IF c.type = "OPUS"
  THEN IF ~c.opus THEN {[ret |-> -1, output |-> dest]}
       ELSE {[ret |-> -1, output |-> dest]}
            \cup {[ret |-> encoded,
                   output |-> [k \in DOMAIN output |->
                                 IF k <= encoded THEN 1 ELSE dest[k]]]
                    : encoded \in 1..maxOutputBytes}
  ELSE IF c.type = "CODEC2"
  THEN IF c.codec2 = Null THEN {[ret |-> -1, output |-> dest]}
       ELSE {Codec2Encode(c, pcmSamples, dest, maxOutputBytes)}
  ELSE {[ret |-> -1, output |-> dest]}

\* everything but the adapter and the record of the last call
codecRest ==
  <<ringVars, okWrites, okReads, skipReads, stepVars, capVars, frameSamples_,
    channels_, callbackBuffer, callbackBufferOffset, callbackBufferValid,
    destroyed, isCreated, isPlaying, stream, playbackMuted, decoderLock,
    consecutivePlcCount, cb, app, output, play>>

NoteCodec(op, ret, out, arg) ==
  [op |-> op, ret |-> ret, output |-> out, before |-> decoder, arg |-> arg]

CreateOpusCall ==
  /\ \E channels \in 1..MaxChannels, created \in BOOLEAN :
       LET res == createOpus(decoder, 48000, channels, created)
       IN  /\ decoder' = res.c
           /\ last' = NoteCodec("createOpus", res.ok, <<>>, channels)
  /\ UNCHANGED codecRest

CreateCodec2Call ==
  /\ \E libraryMode \in LibraryModes :
       \E res \in createCodec2(decoder, libraryMode) :
          /\ decoder' = res.c
          /\ last' = NoteCodec("createCodec2", res.ok, <<>>, libraryMode)
  /\ UNCHANGED codecRest

\* a packet: the header byte, then length bytes numbered in their order
Packet(header, length) == <<header>> \o [i \in 1..length |-> i]

DecodeCall ==
  /\ \E encoded \in {<<>>} \cup {Packet(h, l) : h \in Headers, l \in 0..MaxPayload},
        maxOutputSamples \in 0..MaxOut :
       \E res \in decode(decoder, encoded, Fill(maxOutputSamples, Uninit),
                         maxOutputSamples) :
          /\ decoder' = res.c
          /\ last' = NoteCodec("decode", res.ret, res.output,
                               [encoded |-> encoded,
                                maxOutput |-> maxOutputSamples])
  /\ UNCHANGED codecRest

EncodeCall ==
  /\ \E pcmSamples \in 0..MaxPcm, maxOutputBytes \in 0..(MaxPayload + 1) :
       \E res \in CodecEncode(decoder, pcmSamples,
                              Fill(maxOutputBytes, Uninit), maxOutputBytes) :
          /\ last' = NoteCodec("encode", res.ret, res.output,
                               [pcmSamples |-> pcmSamples,
                                maxOutput |-> maxOutputBytes])
  /\ UNCHANGED decoder
  /\ UNCHANGED codecRest

CodecInit ==
  /\ ringBuffer = Null /\ encodedRingBuffer = Null
  /\ okWrites = 0 /\ okReads = 0 /\ skipReads = 0
  /\ last = NoCall
  /\ StepIdle
  /\ accumBuffer = <<>> /\ accumCount = 0 /\ captureMuted = FALSE
  /\ capt = NoCap /\ isRecording = FALSE /\ err = "idle"
  /\ filterChain = Null /\ silenceBuf = <<>> /\ encoder = Null
  /\ frameSamples_ = 0 /\ channels_ = 0
  /\ callbackBuffer = <<>>
  /\ callbackBufferOffset = 0 /\ callbackBufferValid = 0
  /\ destroyed = FALSE /\ isCreated = FALSE /\ isPlaying = FALSE
  /\ stream = "none" /\ playbackMuted = FALSE
  /\ decoder = NewCodecWrapper
  /\ decoderLock = FALSE /\ consecutivePlcCount = 0
  /\ cb = [pc |-> "idle", ret |-> "none", branch |-> "none"]
  /\ app = "idle" /\ output = <<>> /\ play = NoPlay

CodecNext == CreateOpusCall \/ CreateCodec2Call \/ DecodeCall \/ EncodeCall

CodecSpec == CodecInit /\ [][CodecNext]_vars

----------------------------------------------------------------------------
(* Claims on the codec adapter *)

\* the last call was a decode / an encode on a Codec2 adapter with an instance
Codec2Decoded ==
  /\ last.op = "decode" /\ last.before.type = "CODEC2"
  /\ last.before.codec2 # Null /\ Len(last.arg.encoded) >= 1

Codec2Encoded ==
  /\ last.op = "encode" /\ last.before.type = "CODEC2"
  /\ last.before.codec2 # Null

Supported(header) == header \in 0..6

\* the elements of a buffer a call has written
Written(buf) == {k \in DOMAIN buf : buf[k] # Uninit}

\* the length a packet decodes to, and an input encodes to, in a library mode
DecodedLength(libraryMode, payload) ==
  LET c2 == [mode |-> libraryMode]
  IN  (payload \div codec2_bytes_per_frame(c2)) * codec2_samples_per_frame(c2)

EncodedLength(libraryMode, pcmSamples) ==
  LET c2 == [mode |-> libraryMode]
  IN  1 + (pcmSamples \div codec2_samples_per_frame(c2))
            * codec2_bytes_per_frame(c2)

Thm_C26 ==
  /\ [h \in 1..7 |-> headerToLibraryMode(h - 1)] = <<8, 5, 4, 3, 2, 1, 0>>
  /\ \A h \in 0..6 : libraryModeToHeader(headerToLibraryMode(h)) = h
  /\ \A h \in 7..255 : headerToLibraryMode(h) = -1
  /\ (decoder.type = "CODEC2" /\ decoder.codec2 # Null
        /\ Supported(decoder.c2ModeHeader))
       => /\ headerToLibraryMode(decoder.c2ModeHeader) = decoder.c2LibraryMode
          /\ decoder.codec2.mode = decoder.c2LibraryMode

\* C26 witness: an adapter created in library mode 5 holds header 1, and a
\* packet with header 4 has switched it to library mode 2
Wit_C26 ==
  /\ Codec2Decoded /\ last.before.c2LibraryMode = 5
  /\ last.before.c2ModeHeader = 1
  /\ decoder.c2ModeHeader = 4 /\ decoder.c2LibraryMode = 2

\* C27: Codec2 decode of a packet whose header is not one of the seven
\* returns -1, writes nothing and leaves the adapter as it was.
Orig_C27 ==
  (Codec2Decoded /\ ~Supported(Head(last.arg.encoded)))
    => /\ last.ret = -1
       /\ Written(last.output) = {}
       /\ decoder = last.before

\* C28: Codec2: when the whole sub-frames of a decode or of an encode do not
\* fit the output buffer, the call returns -1 and has written no element of
\* the buffer.
Thm_C28 ==
  /\ (Codec2Decoded /\ decoder.codec2 # Null
        /\ ((Len(last.arg.encoded) - 1) \div decoder.c2BytesPerFrame)
             * decoder.c2SamplesPerFrame > last.arg.maxOutput)
       => (last.ret = -1 /\ Written(last.output) = {})
  /\ (Codec2Encoded
        /\ EncodedLength(last.before.codec2.mode, last.arg.pcmSamples)
             > last.arg.maxOutput)
       => (last.ret = -1 /\ Written(last.output) = {})

\* C28 witness: a packet of two sub-frames of the active mode refused for an
\* output buffer one sample short, the buffer untouched
Wit_C28 ==
  /\ Codec2Decoded
  /\ Head(last.arg.encoded) = last.before.c2ModeHeader
  /\ Len(last.arg.encoded) - 1 = 2 * last.before.c2BytesPerFrame
  /\ last.arg.maxOutput = 2 * last.before.c2SamplesPerFrame - 1
  /\ last.arg.maxOutput >= 1
  /\ last.ret = -1 /\ Written(last.output) = {}

----------------------------------------------------------------------------
(* configureDecoder and configureEncoder by their arguments: the codec type  *)
(* asked for and whether the library creates the codec.                      *)

\* the values of codecType drawn: NONE, OPUS, CODEC2 and one that is no type
CodecTypes == 0..3

TypeName(codecType) == IF codecType = 1 THEN "OPUS" ELSE "CODEC2"

\* configure that takes every codec type for CODEC2 and every creation for
\* successful
Configured_Always(codecType, created) == TRUE

\* bool ok of configureDecoder / configureEncoder
Configured(codecType, created) == codecType \in {1, 2} /\ created

\* configureDecoder(codecType, ...) on an engine with or without a decoder
ConfigureDecoderCall(codecType, created) ==
  /\ isCreated
  /\ app = "idle"
  /\ decoder' = IF Configured(codecType, created)
                THEN [type |-> TypeName(codecType)] ELSE Null
  /\ play' = [play EXCEPT !.ret = Configured(codecType, created)]
  /\ UNCHANGED <<ringVars, histVars, stepVars, capVars, frameSamples_, channels_,
                 callbackBuffer, callbackBufferOffset, callbackBufferValid,
                 destroyed, isCreated, isPlaying, stream, playbackMuted,
                 decoderLock, consecutivePlcCount, cb, app, output>>

ConfigureDecoder ==
  \E codecType \in CodecTypes, created \in BOOLEAN :
     ConfigureDecoderCall(codecType, created)

\* writeEncodedPacket without a decoder: if (!decoder_ || ...) return false
EncodedPacketRefused ==
  /\ isCreated
  /\ app = "idle"
  /\ decoder = Null \/ ringBuffer = Null
  /\ play' = [play EXCEPT !.ret = FALSE]
  /\ UNCHANGED <<ringVars, histVars, stepVars, capVars, frameSamples_, channels_,
                 callbackBuffer, callbackBufferOffset, callbackBufferValid,
                 destroyed, isCreated, isPlaying, stream, playbackMuted,
                 decoder, decoderLock, consecutivePlcCount, cb, app, output>>

\* configureEncoder(codecType, ...): destroyEncoder, then the encoder, the
\* encoded ring buffer and the silence buffer, or none of them
ConfigureEncoderCall(codecType, created) ==
  /\ ~capt.crashed
  /\ IF Configured(codecType, created)
     THEN /\ encoder' \in {[works |-> TRUE], [works |-> FALSE]}
          /\ encodedRingBuffer'
               = EncodedRingBuffer(ringBuffer.maxFrames, MaxBytes)
          /\ silenceBuf' = Fill(frameSamples_, 0)
     ELSE /\ encoder' = Null
          /\ encodedRingBuffer' = Null
          /\ silenceBuf' = <<>>
  /\ UNCHANGED <<ringBuffer, histVars, stepVars, playVars, accumBuffer,
                 accumCount, captureMuted, capt, isRecording, err,
                 filterChain>>

configureEncoder ==
  \E codecType \in CodecTypes, created \in BOOLEAN :
     ConfigureEncoderCall(codecType, created)

\* a started playback engine or a started capture engine without a filter
\* chain, either with or without a codec
ConfInit == DataInit \/ (MuteInit /\ filterChain = Null)

\* the capture engine is followed for one callback fewer than MaxBursts
ConfNext ==
  \/ isPlaying /\ ConfigureDecoder
  \/ isPlaying /\ EncodedPacketRefused
  \/ isPlaying /\ EncodedPacketLock
  \/ isPlaying /\ EncodedPacketDecode
  \/ isRecording /\ capt.bursts < MaxBursts - 1 /\ configureEncoder
  \/ isRecording /\ capt.bursts < MaxBursts - 1 /\ CaptureCallback
  \/ isRecording /\ readSamples

ConfSpec == ConfInit /\ [][ConfNext]_vars

----------------------------------------------------------------------------
(* Claims on the engines' use of the codec adapter *)

\* C30: writeEncodedPacket on a packet that the decoder refuses or decodes to
\* no sample, or to a number of samples other than frameSamples_, returns
\* false and leaves the PCM ring buffer, indices and slots, as it was: nothing
\* is committed and no frame is evicted; the lock is released and the
\* application's thread is free for the next packet.
Thm_C30 ==
  [][\A decodedSamples \in -1..(MaxFrameSamples + 1) :
       (decodedSamples # frameSamples_ /\ EncodedPacketDecoded(decodedSamples))
         => /\ ringBuffer' = ringBuffer
            /\ ~play'.ret
            /\ ~decoderLock' /\ app' = "idle"
    ]_vars

\* C30 witness: 3 slots, packets only: two packets have been committed and
\* fill the buffer, a third decoded to a wrong number of samples: the call
\* returned false and frames 1 and 2 are still buffered
Wit_C30 ==
  /\ ringBuffer # Null /\ ringBuffer.maxFrames = 3 /\ frameSamples_ = 2
  /\ play.calls = 3 /\ ~play.ret /\ app = "idle" /\ ~decoderLock
  /\ Contents(ringBuffer) = <<Frame(1, 2), Frame(2, 2)>>

\* a capture callback runs in this step
CaptureCalled == capt'.bursts = capt.bursts + 1

\* a writeEncodedPacket call returns in this step
PacketReturns == play' # play /\ decoder' = decoder

\* C29: a configureDecoder / configureEncoder call whose codec type is
\* unknown or whose codec the library does not create returns false and
\* leaves the engine without a codec, whatever it had before; while the
\* engine has none, writeEncodedPacket returns false and leaves the ring
\* buffer alone, and the capture callback hands every frame it completes to
\* the PCM ring buffer and none to an encoded ring buffer: as many frames as
\* the samples fed complete, each as it was accumulated when no filter and
\* no mute is on, in a callback that finds room in the ring buffer.
Thm_C29 ==
  [][/\ \A codecType \in CodecTypes, created \in BOOLEAN :
          ~(codecType \in {1, 2} /\ created)
            => /\ ConfigureDecoderCall(codecType, created)
                    => (decoder' = Null /\ ~play'.ret)
               /\ ConfigureEncoderCall(codecType, created)
                    => /\ encoder' = Null
                       /\ encodedRingBuffer' = Null
                       /\ silenceBuf' = <<>>
     /\ (isPlaying /\ decoder = Null /\ PacketReturns)
          => (~play'.ret /\ ringBuffer' = ringBuffer)
     /\ (isRecording /\ encoder = Null /\ CaptureCalled)
          => /\ encodedRingBuffer' = Null
             /\ ~capt'.over
                  => Len(capt'.committed) - Len(capt.committed)
                       = (accumCount + capt'.fed - capt.fed) \div frameSamples_
             /\ \A i \in (Len(capt.committed) + 1)..Len(capt'.committed) :
                  /\ Len(capt'.committed[i]) = frameSamples_
                  /\ (filterChain = Null /\ ~captureMuted /\ ~capt'.over)
                       => \A k \in 1..frameSamples_ :
                            capt'.committed[i][k]
                              = capt.fed - accumCount
                                + (i - Len(capt.committed) - 1) * frameSamples_
                                + k
    ]_vars

\* a capture engine left without an encoder by a failed configureEncoder after
\* an encoder that failed on a frame, with a frame since handed to the PCM
\* ring buffer
Wit_C29 ==
  /\ isRecording /\ encoder = Null /\ encodedRingBuffer = Null
  /\ silenceBuf = <<>>
  /\ ~capt.over /\ ~capt.crashed
  /\ capt.fed - accumCount > frameSamples_ * Len(capt.committed)
  /\ Contents(ringBuffer) # <<>>

----------------------------------------------------------------------------
(* The gain control of the filter chain, block by block.  A gain g is the    *)
(* integer g * AgcOne, products are cut off towards zero; the coefficients    *)
(* are those process() computes at 8 kHz.  A block is given by its length     *)
(* and, for every channel, the target gain its rms yields: 0 stands for a     *)
(* block whose rms does not exceed AGC_TRIGGER_LEVEL, any other value is      *)
(* min(targetLinear / rms, maxGainLinear).  filterChain holds agc_.           *)

MaxBlocks == 5         \* blocks explored
MaxBlockSamples == 2   \* largest block, in samples per channel

AgcOne == 256

\* agc_.attackCoeff = 1 - exp(-1 / (AGC_ATTACK_TIME * sampleRate)) and
\* agc_.releaseCoeff = 1 - exp(-1 / (AGC_RELEASE_TIME * sampleRate)), to the
\* nearest 32nd
AgcAttackCoeff == [num |-> 23, den |-> 32]
AgcReleaseCoeff == [num |-> 2, den |-> 32]

\* agc_.holdSamples = static_cast<int>(AGC_HOLD_TIME * sampleRate), cut to the
\* blocks explored
AgcHoldSamples == 3

\* the target gains of a block that is not quiet: half and twice unity
TargetGains == {AgcOne \div 2, 2 * AgcOne}

\* coeff * targetGain + (1.0f - coeff) * currentGain
Smooth(coeff, targetGain, currentGain) ==
  Mul(coeff, targetGain)
    + Mul([num |-> coeff.den - coeff.num, den |-> coeff.den], currentGain)

\* VoiceFilterChain(channels, ...): agc_.currentGain[ch] = 1.0f, holdCounter 0
AgcState(channels) ==
  [currentGain |-> [c \in 1..channels |-> AgcOne], holdCounter |-> 0]

\* the body of for (ch ...) in applyAGC from the target gain on
AgcChannel(agc, ch, target, blockSamples) ==
  LET currentGain == agc.currentGain[ch]
      targetGain == IF target = 0 THEN currentGain ELSE target
  IN  IF targetGain < currentGain
      THEN [agc EXCEPT !.currentGain[ch]
                         = Smooth(AgcAttackCoeff, targetGain, currentGain),
                       !.holdCounter = AgcHoldSamples]
      ELSE IF agc.holdCounter > 0
      THEN [agc EXCEPT !.holdCounter = @ - blockSamples]
      ELSE [agc EXCEPT !.currentGain[ch]
                         = Smooth(AgcReleaseCoeff, targetGain, currentGain)]

\* for (int ch = 0; ch < channels_; ++ch) over one block
RECURSIVE AgcBlock(_, _, _, _)
AgcBlock(agc, ch, targets, blockSamples) ==
  IF ch > Len(targets) THEN agc
  ELSE AgcBlock(AgcChannel(agc, ch, targets[ch], blockSamples), ch + 1,
                targets, blockSamples)

\* the gain control the claim describes, a hold counter for every channel:
\* what it does with one channel of a block
HoldPerChannel(ref, ch, target, blockSamples) ==
  LET currentGain == ref.currentGain[ch]
      targetGain == IF target = 0 THEN currentGain ELSE target
  IN  IF targetGain < currentGain
      THEN [ref EXCEPT !.currentGain[ch]
                         = Smooth(AgcAttackCoeff, targetGain, currentGain),
                       !.hold[ch] = AgcHoldSamples]
      ELSE IF ref.hold[ch] > 0
      THEN [ref EXCEPT !.hold[ch] = @ - blockSamples]
      ELSE [ref EXCEPT !.currentGain[ch]
                         = Smooth(AgcReleaseCoeff, targetGain, currentGain)]

RECURSIVE HoldPerChannelBlock(_, _, _, _)
HoldPerChannelBlock(ref, ch, targets, blockSamples) ==
  IF ch > Len(targets) THEN ref
  ELSE HoldPerChannelBlock(HoldPerChannel(ref, ch, targets[ch], blockSamples),
                           ch + 1, targets, blockSamples)

\* one block of an applyAGC call; last follows the gain control with a hold
\* counter for every channel on the same blocks
AgcBlockStep ==
  /\ last.blocks < MaxBlocks
  /\ \E blockSamples \in 1..MaxBlockSamples,
        targets \in [1..channels_ -> {0} \cup TargetGains] :
       /\ filterChain' = AgcBlock(filterChain, 1, targets, blockSamples)
       /\ last' = [HoldPerChannelBlock(last, 1, targets, blockSamples)
                     EXCEPT !.blocks = @ + 1, !.targets = targets]
  /\ UNCHANGED <<ringVars, okWrites, okReads, skipReads, stepVars, playVars,
                 accumBuffer, accumCount, captureMuted, capt, isRecording, err,
                 silenceBuf, encoder>>

\* no engine exists: the filter chain is driven on its own
NoEngines ==
  /\ ringBuffer = Null /\ encodedRingBuffer = Null
  /\ okWrites = 0 /\ okReads = 0 /\ skipReads = 0
  /\ StepIdle
  /\ frameSamples_ = 0
  /\ callbackBuffer = <<>>
  /\ callbackBufferOffset = 0
  /\ callbackBufferValid = 0
  /\ destroyed = FALSE
  /\ isCreated = TRUE
  /\ isPlaying = FALSE
  /\ stream = "none"
  /\ playbackMuted = FALSE
  /\ decoder = Null
  /\ decoderLock = FALSE
  /\ consecutivePlcCount = 0
  /\ cb = [pc |-> "idle", ret |-> "none", branch |-> "none"]
  /\ app = "idle"
  /\ output = <<>>
  /\ play = NoPlay
  /\ accumBuffer = <<>>
  /\ accumCount = 0
  /\ captureMuted = FALSE
  /\ capt = NoCap
  /\ isRecording = FALSE
  /\ err = "idle"
  /\ silenceBuf = <<>>
  /\ encoder = Null

\* a filter chain of 1 or 2 channels as its constructor leaves it
AgcInit ==
  /\ \E ch \in 1..2 :
       /\ channels_ = ch
       /\ filterChain = AgcState(ch)
       /\ last = [currentGain |-> [c \in 1..ch |-> AgcOne],
                  hold |-> [c \in 1..ch |-> 0],
                  blocks |-> 0, targets |-> <<>>]
  /\ NoEngines

AgcNext == AgcBlockStep

AgcSpec == AgcInit /\ [][AgcNext]_vars

----------------------------------------------------------------------------
(* The high-pass stage on its own: calls of applyHighPass on a chain of 1 or *)
(* 2 channels.  last follows the recurrence on the raw input,                 *)
(* y[n] = alpha * (y[n-1] + x[n] - x[n-1]), over the same calls.              *)

MaxHpCalls == 2    \* calls explored
MaxHpFrames == 2   \* longest call, in samples per channel

\* the samples of a call, as floats
HpSamples == {ToFloat(s) : s \in {-1, 0, 1, 2}}

\* the recurrence on the raw input from the pair (y, x) of the call before
RawHighPass(w, y0, x0) ==
  LET channels == Len(y0)
      r[k \in 1..Len(w)] ==
        IF k <= channels
        THEN Mul(HpAlpha, y0[k] + (w[k] - x0[k]))
        ELSE Mul(HpAlpha, r[k - channels] + (w[k] - w[k - channels]))
  IN  r

\* applyHighPass(samples, numFrames)
HighPassCall ==
  /\ last.calls < MaxHpCalls
  /\ \E numFrames \in 1..MaxHpFrames :
       \E w \in [1..(numFrames * channels_) -> HpSamples] :
         LET hp == applyHighPass(w, filterChain)
             r == RawHighPass(w, last.y, last.x)
         IN  /\ filterChain' = hp.fc
             /\ last' = [calls |-> last.calls + 1, in |-> w,
                         out |-> hp.samples, raw |-> r,
                         y |-> LastOf(r, channels_),
                         x |-> LastOf(w, channels_)]
  /\ UNCHANGED <<ringVars, okWrites, okReads, skipReads, stepVars, playVars,
                 accumBuffer, accumCount, captureMuted, capt, isRecording, err,
                 silenceBuf, encoder>>

HpInit ==
  /\ \E ch \in 1..2 :
       /\ channels_ = ch
       /\ filterChain = VoiceFilterChain(ch)
       /\ last = [calls |-> 0, in |-> <<>>, out |-> <<>>, raw |-> <<>>,
                  y |-> [c \in 1..ch |-> 0], x |-> [c \in 1..ch |-> 0]]
  /\ NoEngines

HpNext == HighPassCall

HpSpec == HpInit /\ [][HpNext]_vars

----------------------------------------------------------------------------
(* Claims on the pipelines under interleaving, on the lifecycle and on the  *)
(* buffers of the callbacks                                                  *)

NoDuplicates(seq) ==
  \A i, j \in 1..Len(seq) : (i # j /\ seq[i] # TornItem) => seq[i] # seq[j]

\* C31: under every interleaving of a pipeline's producer, its evicting reads
\* on a full buffer included, with the consumer's reads, the read index of
\* the fixed-frame buffer only ever advances by one slot, only while it
\* differs from the write index, and no frame is delivered to the consumer
\* twice.
Orig_C31 ==
  [][IsPcm =>
       /\ ringBuffer'.readIndex # ringBuffer.readIndex
            => /\ ringBuffer.readIndex # ringBuffer.writeIndex
               /\ ringBuffer'.readIndex
                    = (ringBuffer.readIndex + 1) % SlotsOf(ringBuffer)
       /\ NoDuplicates(delivered')]_vars

\* C32: from the return of stopStream until the application's next call the
\* active flag is false and no stream is started, under every interleaving
\* with the error thread's onErrorAfterClose.
Orig_C32 == app = "stopped" => (~Active /\ stream # "open")

\* the elements the read of thread t is copying into its destination: a frame
\* of frameSamples samples, or the packet's bytes
Copied(t) == IF IsPcm THEN TheRing.frameSamples ELSE Len(th[t].val)

\* C33: every read a pipeline issues, the evicting reads of a full buffer in
\* the capture callback and in writeSamples included, copies at most as many
\* elements as its destination holds.
Orig_C33 ==
  \A t \in Threads :
     (th[t].pc = "r_copy_end" /\ (IsPcm \/ th[t].val # TornItem))
       => Copied(t) <= th[t].dest

\* C34: the callback is never inside its concealment call on a decoder
\* instance that configureDecoder or destroyDecoder has destroyed or replaced
\* in the meantime.
Orig_C34 == cb.pc # "plcStale"

Thm_C36 ==
  [][(CaptureCalled /\ ~capt'.crashed)
       => /\ accumCount' \in 0..(frameSamples_ - 1)
          /\ ~capt'.over
               => accumCount'
                    = (accumCount + capt'.fed - capt.fed) % frameSamples_
          /\ \A i \in (Len(capt.committed) + 1)..Len(capt'.committed) :
               Len(capt'.committed[i]) = frameSamples_
          /\ \A i \in 1..Len(Contents(ringBuffer')) :
               Len(Contents(ringBuffer')[i]) = frameSamples_
    ]_vars

\* a burst of 3 samples after one of 2 on frames of 2 samples: two frames
\* committed and in the ring buffer, one sample left in the accumulator
Wit_C36 ==
  /\ isRecording /\ frameSamples_ = 2 /\ capt.bursts = 2 /\ capt.fed = 5
  /\ accumCount = 1 /\ ~capt.over /\ ~capt.crashed
  /\ capt.committed = <<<<1, 2>>, <<3, 4>>>>
  /\ Contents(ringBuffer) = capt.committed

\* no partial frame is pending in the lookahead buffer
NonePending == callbackBufferValid = 0 /\ callbackBufferOffset = 0

\* one partial frame is pending
OnePending ==
  /\ callbackBufferValid = frameSamples_
  /\ 0 < callbackBufferOffset /\ callbackBufferOffset < callbackBufferValid

\* C37: when a callback has returned the lookahead buffer holds no partial
\* frame or exactly one, and the callback is inside its concealment call,
\* which writes into the lookahead buffer, only when none is pending.
Thm_C37 ==
  /\ cb.pc = "idle" => (NonePending \/ OnePending)
  /\ CallbackInDecoder => NonePending

\* the callback is inside its concealment call after it has served the rest
\* of frame 1 from the lookahead buffer
Wit_C37 ==
  /\ cb.pc = "plc" /\ frameSamples_ = 2
  /\ callbackBuffer = Frame(1, 2) /\ NonePending
  /\ SamplesWritten(output) = 1 /\ Len(output) > 1

\* C38: once an encoder is configured the silence buffer holds zeros only, in
\* every state: no step of the capture callback writes to it.
Orig_C38 == \A i \in DOMAIN silenceBuf : silenceBuf[i] = 0

\* C39: the gains the gain control reaches on every channel are those of a
\* gain control with a hold counter for every channel, armed by an attack on
\* that channel only and decreased by the block's length once per block: how
\* long a channel's gain is held does not depend on the other channel.
Orig_C39 == filterChain.currentGain = last.currentGain

\* C40: every sample the high-pass stage leaves, the first of a call
\* included, is alpha * (y[n-1] + x[n] - x[n-1]) with x[n-1] the raw input
\* before it, and the state it carries to the next call is the pair (last
\* filtered output, last raw input).
Orig_C40 ==
  /\ last.out = last.raw
  /\ filterChain.hpFilterStates = last.y
  /\ filterChain.hpLastInputs = last.x

====
